---- MODULE Spec2Model ----
(***************************************************************************)
(* Verification model of the maptools impostor pipeline.                   *)
(*                                                                         *)
(* Part 1: VizGroups, the column-streamed transitive closure of            *)
(*         src/server/src/vizgroup.rs.                                     *)
(* Part 2: ColumnCursors, the multi-LOD tile scheduler of                  *)
(*         src/rust/src/generator/regionorder.rs.                          *)
(***************************************************************************)
EXTENDS Integers, Sequences, FiniteSets, TLC

(***************************************************************************)
(* Bounds of the model.                                                    *)
(***************************************************************************)
\* Longest region stream fed to VizGroups.
MaxRegions == 3
\* Region positions of the stream are 0..MaxCell units on both axes.
MaxCell == 2
\* Edge of the unit square of the streamed regions, in meters
\* (the region size of the repository's test pattern).
VizUnit == 100
\* Shapes (size_x, size_y) of streamed regions, in units: square, wide, tall.
VizShapes == {<<1, 1>>, <<2, 1>>, <<1, 3>>}
\* Grids of the stream.
VizGrids == {"Test"}

(***************************************************************************)
(* State of VizGroups.  LiveBlock and VizGroup objects live on the heap    *)
(* behind Rc pointers: a LiveBlock is identified by the name of the region *)
(* it was created for, and so is the VizGroup created with it.  The heap   *)
(* maps hold an entry exactly for the objects that are still allocated.    *)
(***************************************************************************)
VARIABLES
    column,               \* VizGroups.column: sequence of LiveBlock ids
    prev_region_data,     \* VizGroups.prev_region_data: <<>> or <<region>>
    live_blocks,          \* LiveBlocks.live_blocks: y |-> LiveBlock id
    completed_groups,     \* VizGroups.completed_groups
    tolerance,            \* VizGroups.tolerance
    lb_region_data,       \* LiveBlock.region_data, per live LiveBlock
    lb_viz_group,         \* LiveBlock.viz_group, per live LiveBlock
    vg_grid,              \* VizGroup.grid, per live VizGroup
    vg_regions,           \* VizGroup.regions, per live VizGroup
    vg_live_blocks_weak,  \* VizGroup.live_blocks_weak, per live VizGroup
    vz_pc,                \* "idle", "input", "returned" or "panic"
    vz_input,             \* regions fed since the last delivery
    vz_result,            \* <<>> or <<groups>>: the last delivery
    bounds,               \* ColumnCursors.bounds
    cursors,              \* ColumnCursors.cursors, LOD 0 first
    regions,              \* ColumnCursors.regions
    working_lod,          \* ColumnCursors.working_lod
    progress_made,        \* ColumnCursors.progress_made
    cc_pc,                \* "idle", "iter", "done" (None returned) or "panic"
    cc_out,               \* the items returned by next so far, in order
    cc_last,              \* what the last call of next returned: <<>> or <<item>>
    height_field_cache,   \* HeightFieldCache.cache: key |-> height field
    hc_last,              \* the last cache operation and what it returned
    pg_pc,                \* process_group: "idle", "start", "lods", "lod0",
                          \* "finished", "error" (Err returned) or "panic"
    pg_group,             \* the group given to process_group
    pg_next,              \* position of the LOD-0-only loop in the group
    pg_yielded,           \* the tiles the loops have handed to the build
    pg_takes,             \* the takes made by the builds: <<key, found>>
    hf_call,              \* the HeightField function called and its arguments
    hf_result,            \* <<>> before the call, then <<what it returned>>
    run_pc,               \* run: "idle", "start", "closed", "process", "ok",
                          \* "error" (Err returned) or "panic"
    run_args,             \* the arguments of run: grid and generate_mesh
    tg_generate_mesh,     \* TerrainGenerator.generate_mesh
    grids,                \* transitive_closure: grids
    raw_terrain_heights,  \* the rows of the grid in raw_terrain_heights
    initial_impostors,    \* the rows of the table initial_impostors
    tile_assets,          \* the rows of the table tile_assets
    stats,                \* TerrainGenerator.stats
    files,                \* the names of the files written to outdir
    grid_groups,          \* process_grid: completed_groups once sorted
    grid_group_id,        \* process_grid: the id given to process_group
    built,                \* the impostor data assembled, one per tile built
    request,              \* minifcgi run: the Request it reads records into
    instream,             \* the records still to be read from the connection
    fcgi_pc,              \* run: "idle", "run", "eof" (Ok returned) or
                          \* "error" (500 written, then Ok returned)
    fcgi_requests,        \* the requests the web server put on the connection
    fcgi_handled          \* what the handler saw, one entry per call

vizVars == <<column, prev_region_data, live_blocks, completed_groups, tolerance,
             lb_region_data, lb_viz_group, vg_grid, vg_regions,
             vg_live_blocks_weak, vz_pc, vz_input, vz_result>>

ccVars == <<bounds, cursors, regions, working_lod, progress_made,
            cc_pc, cc_out, cc_last>>

pgVars == <<height_field_cache, hc_last, pg_pc, pg_group, pg_next, pg_yielded,
            pg_takes>>

hfVars == <<hf_call, hf_result>>

runVars == <<run_pc, run_args, tg_generate_mesh, grids,
             raw_terrain_heights, initial_impostors, tile_assets, stats, files, grid_groups,
             grid_group_id, built>>

fcgiVars == <<request, instream, fcgi_pc, fcgi_requests, fcgi_handled>>

vars == <<vizVars, ccVars, pgVars, hfVars, runVars, fcgiVars>>

(***************************************************************************)
(* Generic helpers.                                                        *)
(***************************************************************************)
Range(f) == {f[i] : i \in DOMAIN f}

Restrict(f, D) == [i \in D |-> f[i]]

Min(S) == CHOOSE m \in S : \A n \in S : m <= n

RECURSIVE SortedSeq(_)
SortedSeq(S) ==
    IF S = {} THEN <<>> ELSE <<Min(S)>> \o SortedSeq(S \ {Min(S)})

EmptyMap == [i \in {} |-> 0]

(***************************************************************************)
(* RegionData.                                                             *)
(***************************************************************************)
RegionData(grid, x, y, sx, sy, name) ==
    [grid |-> grid, region_coords_x |-> x, region_coords_y |-> y,
     size_x |-> sx, size_y |-> sy, name |-> name]

(***************************************************************************)
(* The VizGroups object and its heap as one record, so that the methods    *)
(* can be written as operators from state to state.                        *)
(***************************************************************************)
VizState ==
    [column |-> column, prev_region_data |-> prev_region_data,
     live_blocks |-> live_blocks, completed_groups |-> completed_groups,
     tolerance |-> tolerance, lb_region_data |-> lb_region_data,
     lb_viz_group |-> lb_viz_group, vg_grid |-> vg_grid,
     vg_regions |-> vg_regions, vg_live_blocks_weak |-> vg_live_blocks_weak,
     panic |-> FALSE]

\* VizGroups::new / VizGroups::clear
NewVizGroups(tol) ==
    [column |-> <<>>, prev_region_data |-> <<>>, live_blocks |-> EmptyMap,
     completed_groups |-> <<>>, tolerance |-> tol,
     lb_region_data |-> EmptyMap, lb_viz_group |-> EmptyMap,
     vg_grid |-> EmptyMap, vg_regions |-> EmptyMap,
     vg_live_blocks_weak |-> EmptyMap, panic |-> FALSE]

\* A failed assert!: the thread unwinds, nothing is delivered.  The state
\* after a panic is empty, and every operator below leaves it as it is.
Panicked(s) == [NewVizGroups(s.tolerance) EXCEPT !.panic = TRUE]

\* Weak::upgrade succeeds exactly on a LiveBlock that is still allocated.
Upgradable(s, b) == b \in DOMAIN s.lb_viz_group

\* impl Drop for VizGroup, run when the last Rc to group g goes away.
DropVizGroup(s, g) ==
    IF \E b \in DOMAIN s.lb_viz_group : s.lb_viz_group[b] = g
    THEN s
    ELSE [s EXCEPT
            !.completed_groups =
                IF s.vg_regions[g] # <<>>
                THEN Append(s.completed_groups, s.vg_regions[g])
                ELSE s.completed_groups,
            !.vg_grid = Restrict(s.vg_grid, DOMAIN s.vg_grid \ {g}),
            !.vg_regions = Restrict(s.vg_regions, DOMAIN s.vg_regions \ {g}),
            !.vg_live_blocks_weak =
                Restrict(s.vg_live_blocks_weak,
                         DOMAIN s.vg_live_blocks_weak \ {g})]

\* The last Rc to LiveBlock b goes away: b is freed, and with it its
\* reference to its VizGroup.
DropLiveBlock(s, b) ==
    LET g == s.lb_viz_group[b]
        s1 == [s EXCEPT
                 !.lb_viz_group =
                     Restrict(s.lb_viz_group, DOMAIN s.lb_viz_group \ {b}),
                 !.lb_region_data =
                     Restrict(s.lb_region_data, DOMAIN s.lb_region_data \ {b})]
    IN  DropVizGroup(s1, g)

\* A mutation of merge: the regions of the other group are copied, not moved.
merge_copies_regions(s, ga, gb) ==
    LET kept == SelectSeq(s.vg_live_blocks_weak[gb],
                          LAMBDA b : Upgradable(s, b))
    IN  [s EXCEPT
           !.vg_live_blocks_weak =
               [s.vg_live_blocks_weak EXCEPT
                   ![ga] = s.vg_live_blocks_weak[ga] \o kept,
                   ![gb] = <<>>],
           !.vg_regions =
               [s.vg_regions EXCEPT ![ga] = s.vg_regions[ga] \o s.vg_regions[gb]]]

\* VizGroup::merge, self = ga, other = gb.
merge(s, ga, gb) ==
    IF s.vg_grid[ga] # s.vg_grid[gb]
    THEN Panicked(s)
    ELSE LET kept == SelectSeq(s.vg_live_blocks_weak[gb],
                               LAMBDA b : Upgradable(s, b))
         IN  [s EXCEPT
                !.vg_live_blocks_weak =
                    [s.vg_live_blocks_weak EXCEPT
                        ![ga] = s.vg_live_blocks_weak[ga] \o kept,
                        ![gb] = <<>>],
                !.vg_regions =
                    [s.vg_regions EXCEPT
                        ![ga] = s.vg_regions[ga] \o s.vg_regions[gb],
                        ![gb] = <<>>]]

\* LiveBlock::blocks_touch after the merge: every live block of the two
\* groups but self is pointed at group ga, and group gb is dropped.
blocks_touch_merged(m, a, ga, gb) ==
    IF m.panic THEN m
    ELSE LET self_shared == Range(m.vg_live_blocks_weak[ga])
             other_shared == Range(m.vg_live_blocks_weak[gb])
             told == {w \in self_shared \cup other_shared :
                         w # a /\ Upgradable(m, w)}
         IN  DropVizGroup([m EXCEPT
                             !.lb_viz_group =
                                 [w \in DOMAIN m.lb_viz_group |->
                                     IF w \in told THEN ga
                                     ELSE m.lb_viz_group[w]]],
                          gb)

\* LiveBlock::blocks_touch, self = a, other = b.
blocks_touch(s, a, b) ==
    LET ga == s.lb_viz_group[a]
        gb == s.lb_viz_group[b]
    IN  IF ga = gb THEN s
        ELSE blocks_touch_merged(merge(s, ga, gb), a, ga, gb)

\* LiveBlock::y_adjacent, self = a (its assert is the caller's assert).
y_adjacent(s, a, b) ==
    s.lb_region_data[a].region_coords_y + s.lb_region_data[a].size_y
        + s.tolerance >= s.lb_region_data[b].region_coords_y

\* The assert of LiveBlock::xy_adjacent: "columns must be adjacent in X".
xy_adjacent_assert(s, a, b) ==
    s.lb_region_data[a].region_coords_x + s.lb_region_data[a].size_x
        <= s.lb_region_data[b].region_coords_x

\* LiveBlock::xy_adjacent, self = a.
xy_adjacent(s, a, b) ==
    LET a0 == s.lb_region_data[a].region_coords_y
        a1 == a0 + s.lb_region_data[a].size_y + s.tolerance
        b0 == s.lb_region_data[b].region_coords_y
        b1 == b0 + s.lb_region_data[b].size_y + s.tolerance
    IN  a0 < b1 /\ a1 >= b0

\* LiveBlocks::purge_below_x_limit; x_limit = -1 stands for "keep nothing"
\* (u32::MAX in the source).  BTreeMap::retain visits the keys in order.
RECURSIVE purge_keys(_, _, _)
purge_keys(s, keys, x_limit) ==
    IF keys = <<>> THEN s
    ELSE LET y == Head(keys)
             b == s.live_blocks[y]
             keep == x_limit >= 0 /\
                     s.lb_region_data[b].region_coords_x
                         + s.lb_region_data[b].size_x > x_limit
         IN  IF keep THEN purge_keys(s, Tail(keys), x_limit)
             ELSE purge_keys(
                    DropLiveBlock(
                      [s EXCEPT !.live_blocks =
                          Restrict(s.live_blocks, DOMAIN s.live_blocks \ {y})],
                      b),
                    Tail(keys), x_limit)

purge_below_x_limit(s, x_limit) ==
    purge_keys(s, SortedSeq(DOMAIN s.live_blocks), x_limit)

\* VizGroups::check_overlap_live_block_columns: i walks the live blocks in
\* key order, j walks the column.
RECURSIVE overlap_loop(_, _, _, _)
overlap_loop(s, keys, i, j) ==
    IF s.panic \/ i > Len(keys) \/ j > Len(s.column) THEN s
    ELSE LET prev == s.live_blocks[keys[i]]
             curr == s.column[j]
         IN  IF ~xy_adjacent_assert(s, prev, curr) THEN Panicked(s)
             ELSE LET curr_next == s.lb_region_data[curr].region_coords_y
                                       < s.lb_region_data[prev].region_coords_y
                  IN  overlap_loop(IF xy_adjacent(s, prev, curr)
                                   THEN blocks_touch(s, prev, curr) ELSE s,
                                   keys,
                                   IF curr_next THEN i ELSE i + 1,
                                   IF curr_next THEN j + 1 ELSE j)

check_overlap_live_block_columns(s) ==
    overlap_loop(s, SortedSeq(DOMAIN s.live_blocks), 1, 1)

\* First loop of VizGroups::end_column: consecutive entries of the column.
RECURSIVE column_loop(_, _)
column_loop(s, i) ==
    IF s.panic \/ i > Len(s.column) THEN s
    ELSE LET prev == s.column[i - 1]
             item == s.column[i]
         IN  IF s.lb_region_data[prev].region_coords_y
                  > s.lb_region_data[item].region_coords_y
             THEN Panicked(s)
             ELSE column_loop(IF y_adjacent(s, prev, item)
                              THEN blocks_touch(s, prev, item) ELSE s,
                              i + 1)

\* Last loop of VizGroups::end_column: the column is popped from its end
\* into the B-tree; BTreeMap::insert drops a block it replaces.
RECURSIVE insert_loop(_)
insert_loop(s) ==
    IF s.column = <<>> THEN s
    ELSE LET b == s.column[Len(s.column)]
             y == s.lb_region_data[b].region_coords_y
             rest == SubSeq(s.column, 1, Len(s.column) - 1)
             ins == [s EXCEPT
                       !.column = rest,
                       !.live_blocks =
                           [k \in DOMAIN s.live_blocks \cup {y} |->
                               IF k = y THEN b ELSE s.live_blocks[k]]]
         IN  insert_loop(IF y \in DOMAIN s.live_blocks
                         THEN DropLiveBlock(ins, s.live_blocks[y])
                         ELSE ins)

\* VizGroups::end_column from "if !self.column.is_empty()" on.
end_column_insert(s) ==
    IF ~s.panic /\ s.column # <<>>
    THEN insert_loop(
           purge_below_x_limit(
             s, s.lb_region_data[s.column[1]].region_coords_x))
    ELSE s

\* VizGroups::end_column
end_column(s) ==
    end_column_insert(check_overlap_live_block_columns(column_loop(s, 2)))

\* VizGroups::end_grid up to the take of completed_groups.
end_grid_state(s) == purge_below_x_limit(end_column(s), -1)

\* VizGroups::end_grid: the groups returned.
end_grid_result(s) == end_grid_state(s).completed_groups

\* VizGroups::clear at the end of end_grid.
clear(s) == IF s.panic THEN s ELSE NewVizGroups(s.tolerance)

\* VizGroups::end_grid: the state left behind.
end_grid(s) == clear(end_grid_state(s))

\* LiveBlock::new with VizGroup::new: both get the id of the region.
NewLiveBlock(s, r) ==
    IF s.panic THEN s ELSE
    LET id == r.name
        ext(f, v) == [k \in DOMAIN f \cup {id} |-> IF k = id THEN v ELSE f[k]]
    IN  [s EXCEPT
           !.column = Append(s.column, id),
           !.lb_region_data = ext(s.lb_region_data, r),
           !.lb_viz_group = ext(s.lb_viz_group, id),
           !.vg_grid = ext(s.vg_grid, r.grid),
           !.vg_regions = ext(s.vg_regions, <<r>>),
           !.vg_live_blocks_weak = ext(s.vg_live_blocks_weak, <<id>>),
           !.prev_region_data = <<r>>]

\* VizGroups::add_region_data: TRUE when the call ends a grid.
add_region_data_breaks(s, r) ==
    s.prev_region_data # <<>> /\ r.grid # s.prev_region_data[1].grid

\* The same, a change of grid closing the column only.
add_region_data_closed_keeps_grid(s, r) ==
    IF s.prev_region_data = <<>> THEN s
    ELSE LET prev == s.prev_region_data[1]
         IN  IF r.grid # prev.grid
             THEN end_column(s)
             ELSE IF r.region_coords_x # prev.region_coords_x
                  THEN IF r.region_coords_x < prev.region_coords_x
                       THEN Panicked(s)
                       ELSE end_column(s)
                  ELSE s

\* VizGroups::add_region_data: the state before the region is pushed.
add_region_data_closed(s, r) ==
    IF s.prev_region_data = <<>> THEN s
    ELSE LET prev == s.prev_region_data[1]
         IN  IF r.grid # prev.grid
             THEN end_grid(end_column(s))
             ELSE IF r.region_coords_x # prev.region_coords_x
                  THEN IF r.region_coords_x < prev.region_coords_x
                       THEN Panicked(s)
                       ELSE end_column(s)
                  ELSE s

\* What a call of end_grid delivers: <<groups>>, or <<>> after a panic.
end_grid_delivery(s) ==
    IF s.panic \/ end_grid_state(s).panic THEN <<>>
    ELSE <<end_grid_result(s)>>

\* VizGroups::add_region_data: the value returned, <<>> for None.
add_region_data_result(s, r) ==
    IF add_region_data_breaks(s, r)
    THEN end_grid_delivery(end_column(s))
    ELSE <<>>

\* VizGroups::add_region_data: the state after the call.
add_region_data(s, r) == NewLiveBlock(add_region_data_closed(s, r), r)

(***************************************************************************)
(* ColumnCursors: the tile scheduler of regionorder.rs.                    *)
(***************************************************************************)
\* Groups handed to the scheduler: at most MaxGroup regions ...
MaxGroup == 4
\* ... of cells 0..MaxGroupX by 0..MaxGroupY of the base region size.
MaxGroupX == 2
MaxGroupY == 4
\* UploadedRegionInfo::DEFAULT_REGION_SIZE
DEFAULT_REGION_SIZE == 256
\* regionorder.rs MAX_LOD
MAX_LOD == 16

RECURSIVE Pow2(_)
Pow2(n) == IF n = 0 THEN 1 ELSE 2 * Pow2(n - 1)

\* RegionData of the generator, which carries the LOD of the tile.
TileData(grid, x, y, sx, sy, name, lod) ==
    [grid |-> grid, region_coords_x |-> x, region_coords_y |-> y,
     size_x |-> sx, size_y |-> sy, name |-> name, lod |-> lod]

\* A get_group_bounds that compares size_x only.
get_group_bounds_one_size(group) ==
    IF group = <<>> THEN <<>>
    ELSE IF \E i \in 1..Len(group) : group[i].size_x # group[1].size_x
         THEN <<>>
         ELSE << << <<Min({group[i].region_coords_x : i \in 1..Len(group)}),
                      Min({group[i].region_coords_y : i \in 1..Len(group)})>>,
                    <<-Min({-(group[i].region_coords_x + group[i].size_x) :
                               i \in 1..Len(group)}),
                      -Min({-(group[i].region_coords_y + group[i].size_y) :
                               i \in 1..Len(group)})>> >> >>

\* get_group_bounds: <<>> for Err, <<bounds>> for Ok.
get_group_bounds(group) ==
    IF group = <<>> THEN <<>>
    ELSE IF \E i \in 1..Len(group) :
               \/ group[i].size_x # group[1].size_x
               \/ group[i].size_y # group[1].size_y
         THEN <<>>
         ELSE << << <<Min({group[i].region_coords_x : i \in 1..Len(group)}),
                      Min({group[i].region_coords_y : i \in 1..Len(group)})>>,
                    <<-Min({-(group[i].region_coords_x + group[i].size_x) :
                               i \in 1..Len(group)}),
                      -Min({-(group[i].region_coords_y + group[i].size_y) :
                               i \in 1..Len(group)})>> >> >>

\* get_group_scan_limits: <<new_ll, new_ur, step>>.
get_group_scan_limits(bds, region_size, lod) ==
    LET lower_left == bds[1]
        upper_right == bds[2]
        lod_mult == Pow2(lod)
        step == <<region_size[1] * lod_mult, region_size[2] * lod_mult>>
    IN  << <<(lower_left[1] \div step[1]) * step[1],
             (lower_left[2] \div step[2]) * step[2]>>,
           <<((upper_right[1] + step[1]) \div step[1]) * step[1],
             ((upper_right[2] + step[2]) \div step[2]) * step[2]>>,
           step >>

\* ColumnCursor::new with RecentColumnInfo::new.  The fields of
\* recent_column_info are fields of the cursor record; region_type_info is
\* <<current column, previous column>>.  marked is history: the cells this
\* cursor has set, as <<x, y, type>> in meters.
NewColumnCursor(bds, base_region_size, lod, grid) ==
    LET lim == get_group_scan_limits(bds, base_region_size, lod)
        ll == lim[1]
        ur == lim[2]
        scale == Pow2(lod)
        tile_size == <<base_region_size[1] * scale, base_region_size[2] * scale>>
        x_steps == (ur[1] - ll[1]) \div tile_size[1]
        y_steps == (ur[2] - ll[2]) \div tile_size[2]
    IN  [size |-> lim[3],
         start |-> ll,
         lod_bounds |-> <<ll, ur>>,
         region_type_info |-> << [i \in 1..x_steps |-> "Unknown"],
                                 [i \in 1..x_steps |-> "Unknown"] >>,
         full_coverage |-> (x_steps = 1 /\ y_steps = 1),
         next_y_index |-> 0,
         region_data_index |-> 0,
         lod |-> lod,
         grid |-> grid,
         marked |-> {}]

\* The loop of ColumnCursors::new.
RECURSIVE NewCursors(_, _, _, _)
NewCursors(bds, base_region_size, grid, lod) ==
    IF lod >= MAX_LOD THEN <<>>
    ELSE LET c == NewColumnCursor(bds, base_region_size, lod, grid)
         IN  IF c.full_coverage THEN <<c>>
             ELSE <<c>> \o NewCursors(bds, base_region_size, grid, lod + 1)

\* ColumnCursors::new; panic is the failed expect on get_group_bounds.
NewColumnCursors(rs) ==
    LET b == get_group_bounds(rs)
    IN  IF b = <<>>
        THEN [bounds |-> <<>>, cursors |-> <<>>, regions |-> rs,
              working_lod |-> 0, progress_made |-> FALSE, panic |-> TRUE]
        ELSE [bounds |-> b[1],
              cursors |-> NewCursors(b[1], <<rs[1].size_x, rs[1].size_y>>,
                                     rs[1].grid, 0),
              regions |-> rs,
              working_lod |-> 0, progress_made |-> FALSE, panic |-> FALSE]

\* Number of cells of a column.
ColumnLen(c) == Len(c.region_type_info[1])

\* A write of region_type_info[0][yix], yix counted from 0.
SetCell(c, yix, type) ==
    [c EXCEPT !.region_type_info[1][yix + 1] = type,
              !.marked = @ \cup {<<c.start[1],
                                   c.lod_bounds[1][2] + yix * c.size[2],
                                   type>>}]

\* RecentColumnInfo::try_calc_y_index: -1 for None.
try_calc_y_index(c, y) ==
    LET ll_y == c.lod_bounds[1][2]
    IN  IF y >= ll_y
        THEN LET yix == (y - ll_y) \div c.size[2]
             IN  IF yix < ColumnLen(c) THEN yix ELSE -1
        ELSE -1

\* The assert of RecentColumnInfo::shift.
shift_assert(c) ==
    \A i \in 1..ColumnLen(c) : c.region_type_info[1][i] # "Unknown"

\* RecentColumnInfo::shift
shift(c) ==
    [c EXCEPT !.region_type_info =
                  << [i \in 1..ColumnLen(c) |-> "Unknown"],
                     c.region_type_info[1] >>,
              !.start = <<c.start[1] + c.size[1], c.start[2]>>]

\* RecentColumnInfo::test_cell: "Panic" for the failed assert.
test_cell(c, loc) ==
    LET x == loc[1]
        y == loc[2]
    IN  IF x # c.start[1] /\ x + c.size[1] # c.start[1] THEN "Water"
        ELSE LET row == IF x = c.start[1] THEN c.region_type_info[1]
                        ELSE c.region_type_info[2]
                 ix == y \div c.size[2]
             IN  IF y % c.size[2] # 0 THEN "Panic"
                 ELSE IF ix < Len(row) THEN row[ix + 1] ELSE "Water"

\* RecentColumnInfo::test_four_cells (no caller in regionorder.rs).
test_four_cells(c, loc) ==
    LET x == loc[1]
        y == loc[2]
        s00 == test_cell(c, <<x, y>>)
        s01 == test_cell(c, <<x, y + c.size[2]>>)
        s10 == test_cell(c, <<x + c.size[1], y>>)
        s11 == test_cell(c, <<x + c.size[1], y + c.size[2]>>)
        all == {s00, s01, s10, s11}
    IN  IF "Panic" \in all THEN "Panic"
        ELSE IF "Unknown" \in all THEN "Unknown"
        ELSE IF all = {"Water"} THEN "Water"
        ELSE "Land"

\* The loops of mark_as_land: cells from..to-1 become Water; each must be
\* Unknown (assert).  ok is FALSE after a failed assert.
RECURSIVE FillWater(_, _, _)
FillWater(r, from, to) ==
    IF ~r.ok \/ from >= to THEN r
    ELSE IF r.cursor.region_type_info[1][from + 1] # "Unknown"
         THEN [r EXCEPT !.ok = FALSE]
         ELSE FillWater([r EXCEPT !.cursor = SetCell(r.cursor, from, "Water")],
                        from + 1, to)

\* ColumnCursor::mark_as_land: [cursor, done (the bool returned), ok (FALSE
\* when an assert or a bounds check failed)].
mark_as_land(c, loc) ==
    LET Fail(cur) == [cursor |-> cur, done |-> FALSE, ok |-> FALSE]
        fill_last == ColumnLen(c) - 1
        \* The part after the column break test.
        Mark(cur) ==
            IF cur.start[1] # loc[1] THEN Fail(cur)
            ELSE LET yix == try_calc_y_index(cur, loc[2])
                 IN  IF yix < 0 THEN Fail(cur)
                     ELSE IF loc[2] % cur.size[2] # 0 THEN Fail(cur)
                     ELSE IF cur.region_type_info[1][yix + 1] # "Unknown"
                          THEN Fail(cur)
                     ELSE LET f == FillWater([cursor |-> cur, ok |-> TRUE],
                                             cur.next_y_index, yix)
                          IN  IF ~f.ok THEN Fail(f.cursor)
                              ELSE [cursor |->
                                        [SetCell(f.cursor, yix, "Land")
                                            EXCEPT !.next_y_index = yix + 1],
                                    done |-> TRUE, ok |-> TRUE]
    IN  IF ~(c.start[1] <= loc[1]) THEN Fail(c)
        ELSE IF c.start[1] < loc[1]
        THEN IF ColumnLen(c) = 0 THEN Fail(c)
             ELSE IF c.region_type_info[1][fill_last + 1] = "Unknown"
             THEN LET f == FillWater([cursor |-> c, ok |-> TRUE],
                                     c.next_y_index, fill_last + 1)
                  IN  IF ~f.ok \/ ~shift_assert(f.cursor) THEN Fail(f.cursor)
                      ELSE [cursor |-> [f.cursor EXCEPT !.next_y_index = fill_last],
                            done |-> FALSE, ok |-> TRUE]
             ELSE IF ~shift_assert(c) THEN Fail(c)
                  ELSE Mark(shift([c EXCEPT !.next_y_index = 0]))
        ELSE Mark(c)

\* ColumnCursor::advance_lod_0: [status, cursor, data]; status "Panic" is a
\* failed assert or bounds check.
advance_lod_0(c, rs) ==
    LET n == c.region_data_index
    IN  IF n < Len(rs)
        THEN LET region == rs[n + 1]
                 m == mark_as_land(c, <<region.region_coords_x,
                                        region.region_coords_y>>)
             IN  IF ~m.ok
                 THEN [status |-> "Panic", cursor |-> m.cursor, data |-> <<>>]
                 ELSE IF ~m.done
                 THEN [status |-> "Progress", cursor |-> m.cursor, data |-> <<>>]
                 ELSE [status |-> "Data",
                       cursor |-> [m.cursor EXCEPT !.region_data_index = n + 1],
                       data |-> <<region>>]
        ELSE [status |-> "None", cursor |-> c, data |-> <<>>]

\* ColumnCursor::build_new_tile
build_new_tile(c, loc, size) ==
    TileData(c.grid, loc[1], loc[2], size[1], size[2], "???", c.lod)

\* ColumnCursor::advance_lod_n, prev the cursor of the next finer LOD.
advance_lod_n(c, prev) ==
    LET None(cur) == [status |-> "None", cursor |-> cur, data |-> <<>>]
        Panic(cur) == [status |-> "Panic", cursor |-> cur, data |-> <<>>]
        \* Test next cell along Y axis.
        Test(cur) ==
            LET loc == <<cur.start[1],
                         cur.start[2] + cur.size[2] * cur.next_y_index>>
                t == test_cell(prev, loc)
            IN  CASE t = "Panic" -> Panic(cur)
                  [] t = "Unknown" -> None(cur)
                  [] t = "Land" ->
                        IF cur.next_y_index >= ColumnLen(cur) THEN Panic(cur)
                        ELSE [status |-> "Data",
                              cursor |-> [SetCell(cur, cur.next_y_index, "Land")
                                             EXCEPT !.next_y_index = @ + 1],
                              data |-> <<build_new_tile(cur, loc, cur.size)>>]
                  [] t = "Water" ->
                        IF cur.next_y_index >= ColumnLen(cur) THEN Panic(cur)
                        ELSE [status |-> "Progress",
                              cursor |-> [SetCell(cur, cur.next_y_index, "Water")
                                             EXCEPT !.next_y_index = @ + 1],
                              data |-> <<>>]
    IN  IF c.start[1] >= c.lod_bounds[2][1] THEN None(c)
        ELSE IF c.next_y_index >= ColumnLen(c)
        THEN IF ~shift_assert(c) THEN Panic(c)
             ELSE LET c1 == [shift(c) EXCEPT !.next_y_index = 0]
                  IN  IF c1.start[1] >= c1.lod_bounds[2][1] THEN None(c1)
                      ELSE Test(c1)
        ELSE Test(c)

\* The ColumnCursors object as one record.
CursorsState ==
    [bounds |-> bounds, cursors |-> cursors, regions |-> regions,
     working_lod |-> working_lod, progress_made |-> progress_made,
     panic |-> FALSE]

\* impl Iterator for ColumnCursors: one turn of the loop of next.
\* [cc, item, panic, again]: the object after the turn, <<>> for None or
\* <<item>> for Some(item), and again for continue.
loop_turn(cc) ==
    IF cc.working_lod >= Len(cc.cursors)
    THEN IF cc.progress_made
         THEN [cc |-> [cc EXCEPT !.progress_made = FALSE, !.working_lod = 0],
               item |-> <<>>, panic |-> FALSE, again |-> TRUE]
         ELSE [cc |-> cc, item |-> <<>>, panic |-> FALSE, again |-> FALSE]
    ELSE LET wl == cc.working_lod
             a == IF wl = 0
                  THEN advance_lod_0(cc.cursors[1], cc.regions)
                  ELSE advance_lod_n(cc.cursors[wl + 1], cc.cursors[wl])
             cc1 == [cc EXCEPT !.cursors[wl + 1] = a.cursor]
         IN  CASE a.status = "Panic" ->
                    [cc |-> cc1, item |-> <<>>, panic |-> TRUE, again |-> FALSE]
               [] a.status = "None" ->
                    [cc |-> [cc1 EXCEPT !.working_lod = wl + 1],
                     item |-> <<>>, panic |-> FALSE, again |-> TRUE]
               [] a.status = "Data" ->
                    [cc |-> [cc1 EXCEPT !.progress_made = TRUE],
                     item |-> a.data, panic |-> FALSE, again |-> FALSE]
               [] a.status = "Progress" ->
                    [cc |-> [cc1 EXCEPT !.progress_made = TRUE],
                     item |-> <<>>, panic |-> FALSE, again |-> TRUE]

\* impl Iterator for ColumnCursors: next, the loop run until it breaks.
\* t is the one value of loop_turn(cc).
RECURSIVE next(_)
next(cc) ==
    CHOOSE r \in {IF t.again THEN next(t.cc) ELSE t : t \in {loop_turn(cc)}} :
        TRUE

(***************************************************************************)
(* The groups handed to the scheduler: the connected sets (cells sharing   *)
(* an edge) of at most MaxGroup cells, as a completed viz group of base    *)
(* size regions lists them, in (x, y) order.                               *)
(***************************************************************************)
GroupCells == (0..MaxGroupX) \X (0..MaxGroupY)

CellNeighbours(c) ==
    {<<c[1] + 1, c[2]>>, <<c[1] - 1, c[2]>>, <<c[1], c[2] + 1>>,
     <<c[1], c[2] - 1>>} \cap GroupCells

RECURSIVE ConnectedSets(_)
ConnectedSets(n) ==
    IF n <= 1 THEN {{c} : c \in GroupCells}
    ELSE LET P == ConnectedSets(n - 1)
         IN  P \cup UNION {{S \cup {c} : c \in UNION {CellNeighbours(d) : d \in S}}
                             : S \in P}

CellKey(c) == c[1] * (MaxGroupY + 1) + c[2]

\* The regions of a set of cells in (x, y) order.
GroupOfCells(S) ==
    LET keys == SortedSeq({CellKey(c) : c \in S})
    IN  [i \in 1..Len(keys) |->
            TileData("Test",
                     (keys[i] \div (MaxGroupY + 1)) * DEFAULT_REGION_SIZE,
                     (keys[i] % (MaxGroupY + 1)) * DEFAULT_REGION_SIZE,
                     DEFAULT_REGION_SIZE, DEFAULT_REGION_SIZE, ToString(i), 0)]

StoreCursors(cc) ==
    /\ bounds' = cc.bounds
    /\ cursors' = cc.cursors
    /\ regions' = cc.regions
    /\ working_lod' = cc.working_lod
    /\ progress_made' = cc.progress_made

\* The scheduler while the closure runs.
IdleCursors ==
    /\ bounds = <<>>
    /\ cursors = <<>>
    /\ regions = <<>>
    /\ working_lod = 0
    /\ progress_made = FALSE
    /\ cc_pc = "idle"
    /\ cc_out = <<>>
    /\ cc_last = <<>>

\* The closure while the scheduler runs.
IdleViz ==
    /\ column = <<>>
    /\ prev_region_data = <<>>
    /\ live_blocks = EmptyMap
    /\ completed_groups = <<>>
    /\ tolerance = 0
    /\ lb_region_data = EmptyMap
    /\ lb_viz_group = EmptyMap
    /\ vg_grid = EmptyMap
    /\ vg_regions = EmptyMap
    /\ vg_live_blocks_weak = EmptyMap
    /\ vz_pc = "idle"
    /\ vz_input = <<>>
    /\ vz_result = <<>>

\* No HeightField function is being called.
IdleHeights ==
    /\ hf_call = <<>>
    /\ hf_result = <<>>

\* Request::new(): None and the empty Vec are <<>>.
NewRequest ==
    [id |-> <<>>, param_bytes |-> <<>>, params |-> <<>>,
     standard_input |-> <<>>]

\* minifcgi run is not called.
IdleFcgi ==
    /\ request = NewRequest
    /\ instream = <<>>
    /\ fcgi_pc = "idle"
    /\ fcgi_requests = <<>>
    /\ fcgi_handled = <<>>

\* TerrainGenerator::new outside run: no asset known, nothing written.
IdleRun ==
    /\ run_pc = "idle"
    /\ run_args = <<>>
    /\ tg_generate_mesh = FALSE
    /\ grids = <<>>
    /\ raw_terrain_heights = <<>>
    /\ initial_impostors = {}
    /\ tile_assets = {}
    /\ stats = [assets_generated |-> 0, assets_reused |-> 0]
    /\ files = <<>>
    /\ grid_groups = <<>>
    /\ grid_group_id = 0
    /\ built = <<>>

\* The generator while it processes no group.
IdleGroup ==
    /\ height_field_cache = EmptyMap
    /\ hc_last = <<>>
    /\ pg_pc = "idle"
    /\ pg_group = <<>>
    /\ pg_next = 0
    /\ pg_yielded = <<>>
    /\ pg_takes = <<>>

\* ColumnCursors::new(group)
InitCursors ==
    /\ IdleViz
    /\ IdleGroup
    /\ IdleHeights
    /\ IdleRun
    /\ IdleFcgi
    /\ \E S \in ConnectedSets(MaxGroup) :
          LET cc == NewColumnCursors(GroupOfCells(S))
          IN  /\ bounds = cc.bounds
              /\ cursors = cc.cursors
              /\ regions = cc.regions
              /\ working_lod = cc.working_lod
              /\ progress_made = cc.progress_made
    /\ cc_pc = "iter"
    /\ cc_out = <<>>
    /\ cc_last = <<>>

\* One call of ColumnCursors::next, also after it has returned None.
NextItem ==
    /\ cc_pc \in {"iter", "done"}
    /\ \E r \in {next(CursorsState)} :
           /\ StoreCursors(r.cc)
           /\ cc_pc' = IF r.panic THEN "panic"
                       ELSE IF r.item = <<>> THEN "done" ELSE "iter"
           /\ cc_out' = cc_out \o r.item
           /\ cc_last' = r.item
    /\ UNCHANGED <<fcgiVars, runVars, hfVars, vizVars, pgVars>>

NextCursors == NextItem

SpecCursors == InitCursors /\ [][NextCursors]_vars

\* next is called again and again by the for loop that drains the iterator.
FairSpecCursors == SpecCursors /\ WF_vars(NextItem)

(***************************************************************************)
(* The stream fed to VizGroups.                                            *)
(***************************************************************************)
VizRegions(name) ==
    {RegionData(g, x * VizUnit, y * VizUnit, sh[1] * VizUnit, sh[2] * VizUnit,
                name) :
        g \in VizGrids, x \in 0..MaxCell, y \in 0..MaxCell, sh \in VizShapes}

\* (x, y) order inside one grid, equal positions allowed.
LexOrdered(p, r) ==
    \/ p.region_coords_x < r.region_coords_x
    \/ /\ p.region_coords_x = r.region_coords_x
       /\ p.region_coords_y <= r.region_coords_y

StoreViz(s) ==
    /\ column' = s.column
    /\ prev_region_data' = s.prev_region_data
    /\ live_blocks' = s.live_blocks
    /\ completed_groups' = s.completed_groups
    /\ tolerance' = s.tolerance
    /\ lb_region_data' = s.lb_region_data
    /\ lb_viz_group' = s.lb_viz_group
    /\ vg_grid' = s.vg_grid
    /\ vg_regions' = s.vg_regions
    /\ vg_live_blocks_weak' = s.vg_live_blocks_weak

InitViz ==
    /\ \E corners \in BOOLEAN :
          LET s == NewVizGroups(IF corners THEN 1 ELSE 0)
          IN  /\ column = s.column
              /\ prev_region_data = s.prev_region_data
              /\ live_blocks = s.live_blocks
              /\ completed_groups = s.completed_groups
              /\ tolerance = s.tolerance
              /\ lb_region_data = s.lb_region_data
              /\ lb_viz_group = s.lb_viz_group
              /\ vg_grid = s.vg_grid
              /\ vg_regions = s.vg_regions
              /\ vg_live_blocks_weak = s.vg_live_blocks_weak
    /\ vz_pc = "input"
    /\ vz_input = <<>>
    /\ vz_result = <<>>
    /\ IdleCursors
    /\ IdleGroup
    /\ IdleHeights
    /\ IdleRun
    /\ IdleFcgi

\* One call of add_region_data with the next region of a lex-ordered stream
\* of one grid.
AddRegionData ==
    /\ vz_pc = "input"
    /\ Len(vz_input) < MaxRegions
    /\ \E r \in VizRegions(Len(vz_input) + 1) :
          /\ vz_input # <<>> =>
                /\ r.grid = vz_input[Len(vz_input)].grid
                /\ LexOrdered(vz_input[Len(vz_input)], r)
          /\ \E s \in {add_region_data(VizState, r)} :
                 /\ StoreViz(s)
                 /\ vz_pc' = IF s.panic THEN "panic" ELSE "input"
                 /\ vz_input' = IF s.panic THEN <<>> ELSE Append(vz_input, r)
                 /\ vz_result' = <<>>
    /\ UNCHANGED <<fcgiVars, runVars, hfVars, ccVars, pgVars>>

\* The call of end_grid that ends the stream.
EndGrid ==
    /\ vz_pc = "input"
    /\ vz_input # <<>>
    /\ \E s \in {end_grid(VizState)} :
           /\ StoreViz(s)
           /\ vz_pc' = IF s.panic THEN "panic" ELSE "returned"
           /\ vz_input' = IF s.panic THEN <<>> ELSE vz_input
           /\ vz_result' = end_grid_delivery(VizState)
    /\ UNCHANGED <<fcgiVars, runVars, hfVars, ccVars, pgVars>>

NextViz == AddRegionData \/ EndGrid

SpecViz == InitViz /\ [][NextViz]_vars

(***************************************************************************)
(* Geometry the claims about VizGroups are stated in.                      *)
(***************************************************************************)
\* All positions (group, index) of a delivery.
GroupSlots(gs) ==
    UNION {{<<g, k>> : k \in 1..Len(gs[g])} : g \in 1..Len(gs)}

\* The closed rectangles of p and r share more than one point: an edge
\* segment or an area.
EdgeAdjacent(p, r) ==
    LET xt == p.region_coords_x <= r.region_coords_x + r.size_x
              /\ r.region_coords_x <= p.region_coords_x + p.size_x
        yt == p.region_coords_y <= r.region_coords_y + r.size_y
              /\ r.region_coords_y <= p.region_coords_y + p.size_y
        xo == p.region_coords_x < r.region_coords_x + r.size_x
              /\ r.region_coords_x < p.region_coords_x + p.size_x
        yo == p.region_coords_y < r.region_coords_y + r.size_y
              /\ r.region_coords_y < p.region_coords_y + p.size_y
    IN  (xo /\ yt) \/ (xt /\ yo)

\* The closed rectangles of p and r share at least one point.
Touching(p, r) ==
    /\ p.region_coords_x <= r.region_coords_x + r.size_x
    /\ r.region_coords_x <= p.region_coords_x + p.size_x
    /\ p.region_coords_y <= r.region_coords_y + r.size_y
    /\ r.region_coords_y <= p.region_coords_y + p.size_y

\* Adjacency under the corner rule of the constructor's flag.
RuleAdjacent(p, r, tol) ==
    IF tol = 1 THEN Touching(p, r) ELSE EdgeAdjacent(p, r)

\* The regions of S linked to a region of R by a chain of regions of S in
\* which consecutive regions are adjacent under the corner rule tol.
RECURSIVE Reach(_, _, _)
Reach(S, R, tol) ==
    LET more == {q \in S \ R : \E p \in R : RuleAdjacent(p, q, tol)}
    IN  IF more = {} THEN R ELSE Reach(S, R \cup more, tol)

\* The group of a delivery that holds region r (0 when none does).
GroupOf(gs, r) ==
    IF \E p \in GroupSlots(gs) : gs[p[1]][p[2]] = r
    THEN (CHOOSE p \in GroupSlots(gs) : gs[p[1]][p[2]] = r)[1]
    ELSE 0

(***************************************************************************)
(* C1: when end_grid returns, the completed groups partition the input:    *)
(* every region fed to the stream sits in exactly one slot of exactly one  *)
(* group, and every slot of every group holds a region that was fed.       *)
(***************************************************************************)
C1_GroupsPartitionInput ==
    vz_pc = "returned" =>
        LET gs == vz_result[1]
        IN  /\ \A i \in 1..Len(vz_input) :
                  Cardinality({p \in GroupSlots(gs) :
                                  gs[p[1]][p[2]] = vz_input[i]}) = 1
            /\ \A p \in GroupSlots(gs) : gs[p[1]][p[2]] \in Range(vz_input)
            /\ \A g \in 1..Len(gs) : gs[g] # <<>>

\* C1 witness: a delivery of several groups, one of them merged from
\* several regions.
C1_Witness ==
    /\ vz_pc = "returned"
    /\ Len(vz_input) = MaxRegions
    /\ Len(vz_result[1]) >= 2
    /\ \E g \in 1..Len(vz_result[1]) : Len(vz_result[1][g]) >= 2

\* No two regions of the input have interiors that intersect.
NoOverlap(input) ==
    \A i, j \in 1..Len(input) :
        i # j =>
            ~ /\ input[i].region_coords_x < input[j].region_coords_x + input[j].size_x
              /\ input[j].region_coords_x < input[i].region_coords_x + input[i].size_x
              /\ input[i].region_coords_y < input[j].region_coords_y + input[j].size_y
              /\ input[j].region_coords_y < input[i].region_coords_y + input[i].size_y

(***************************************************************************)
(* C2: when end_grid returns, two input regions linked by a chain of       *)
(* regions whose rectangles touch along an edge or overlap are in the same *)
(* completed group, whatever the sizes of the regions.  Stated for inputs  *)
(* whose regions do not overlap, the well-formed case of the claim.        *)
(***************************************************************************)
C2_AdjacentRegionsShareGroup ==
    (vz_pc = "returned" /\ NoOverlap(vz_input)) =>
        \A i, j \in 1..Len(vz_input) :
            vz_input[j] \in Reach(Range(vz_input), {vz_input[i]}, 0) =>
                GroupOf(vz_result[1], vz_input[i])
                    = GroupOf(vz_result[1], vz_input[j])

(***************************************************************************)
(* C3: when end_grid returns, two regions of one completed group are       *)
(* linked by a chain of regions of that group in which consecutive regions *)
(* are adjacent; so a region that ends before the column of another one    *)
(* starts shares its group only through a chain.  Stated with the wider of *)
(* the two corner rules (a shared corner counts): two regions that fail it *)
(* are linked under neither rule.                                          *)
(***************************************************************************)
C3_GroupMembersAreChained ==
    vz_pc = "returned" =>
        \A g \in 1..Len(vz_result[1]) :
            \A a, b \in Range(vz_result[1][g]) :
                b \in Reach(Range(vz_result[1][g]), {a}, 1)

(***************************************************************************)
(* C4: two regions that are the whole input and whose rectangles share     *)
(* exactly one corner point end in two groups under VizGroups::new(false)  *)
(* and in one group under VizGroups::new(true), in both diagonal           *)
(* directions.                                                             *)
(***************************************************************************)
C4_CornerRule ==
    (/\ vz_pc = "returned"
     /\ Len(vz_input) = 2
     /\ Touching(vz_input[1], vz_input[2])
     /\ ~EdgeAdjacent(vz_input[1], vz_input[2])) =>
        IF tolerance = 0
        THEN Len(vz_result[1]) = 2
        ELSE Len(vz_result[1]) = 1

(***************************************************************************)
(* The terms the claims about ColumnCursors are stated in.                 *)
(***************************************************************************)
\* The tile size at a LOD.
TileSize(k) == DEFAULT_REGION_SIZE * Pow2(k)

\* The items returned so far at one LOD, in the order returned.
ItemsAtLod(k) == SelectSeq(cc_out, LAMBDA t : t.lod = k)

\* The locations of the items returned so far at one LOD.
ReturnedAt(k) ==
    {<<cc_out[i].region_coords_x, cc_out[i].region_coords_y>> :
        i \in {j \in 1..Len(cc_out) : cc_out[j].lod = k}}

\* The locations of the input regions.
LandCells ==
    {<<regions[i].region_coords_x, regions[i].region_coords_y>> :
        i \in 1..Len(regions)}

\* The four LOD-(k-1) tiles a LOD-k tile at loc covers.
Children(k, loc) ==
    {<<loc[1] + dx, loc[2] + dy>> :
        dx \in {0, TileSize(k - 1)}, dy \in {0, TileSize(k - 1)}}

\* A LOD-j tile is land: an input region, or a tile that was returned.
IsLand(j, loc) == IF j = 0 THEN loc \in LandCells ELSE loc \in ReturnedAt(j)

\* The cell was marked in the column state of LOD j.
MarkedAs(j, loc, type) ==
    /\ j + 1 <= Len(cursors)
    /\ <<loc[1], loc[2], type>> \in cursors[j + 1].marked

\* The aligned tile locations of LOD k that meet the bounds of the group.
TilesOver(k) ==
    {<<x * TileSize(k), y * TileSize(k)>> :
        x \in 0..(bounds[2][1] \div TileSize(k)),
        y \in 0..(bounds[2][2] \div TileSize(k))}

\* The tile lies inside the scan limits of LOD j.
InScan(j, loc) ==
    /\ j + 1 <= Len(cursors)
    /\ cursors[j + 1].lod_bounds[1][1] <= loc[1]
    /\ loc[1] < cursors[j + 1].lod_bounds[2][1]
    /\ cursors[j + 1].lod_bounds[1][2] <= loc[2]
    /\ loc[2] < cursors[j + 1].lod_bounds[2][2]

IsPrefix(s, t) == Len(s) <= Len(t) /\ \A i \in 1..Len(s) : s[i] = t[i]

\* C5: when next returns a tile at LOD k >= 1, each of its four LOD-(k-1)
\* children has been returned as land or has been marked Water in the
\* column state of LOD k-1.  A child outside the scan limits of LOD k-1 has
\* no cell in the column state and is not asked for.
C5_ChildrenSettledBeforeTile ==
    (cc_pc = "iter" /\ cc_last # <<>> /\ cc_last[1].lod >= 1) =>
        LET k == cc_last[1].lod
            loc == <<cc_last[1].region_coords_x, cc_last[1].region_coords_y>>
        IN  \A ch \in Children(k, loc) :
                \/ ch \in ReturnedAt(k - 1)
                \/ MarkedAs(k - 1, ch, "Water")
                \/ ~InScan(k - 1, ch)

\* C6: once next has returned None, every LOD-k tile, 1 <= k <= top LOD,
\* with at least one land tile among its four children has been returned.
C6_TileWithLandChildReturned ==
    cc_pc = "done" =>
        \A k \in 1..(Len(cursors) - 1) : \A loc \in TilesOver(k) :
            (\E ch \in Children(k, loc) : IsLand(k - 1, ch)) =>
                loc \in ReturnedAt(k)

\* C7: the LOD-0 items returned are always the input regions in input
\* order, none twice, and in the end every input region has been returned.
C7_EveryRegionOnceInOrder ==
    /\ [](IsPrefix(ItemsAtLod(0), regions))
    /\ <>(ItemsAtLod(0) = regions)

\* C8: a LOD-k tile, k >= 1, whose four children are all water is never
\* returned, and when its cell is marked it is marked Water.
C8_AllWaterTileNotReturned ==
    \A k \in 1..(Len(cursors) - 1) : \A loc \in TilesOver(k) :
        (\A ch \in Children(k, loc) : ~IsLand(k - 1, ch)) =>
            /\ loc \notin ReturnedAt(k)
            /\ ~MarkedAs(k, loc, "Land")

\* C9: after finitely many calls next returns None, and from then on every
\* call returns None.
C9_NextEndsWithNoneForGood == <>[](cc_pc = "done")

\* C10: when next returns None the first time, the cursor of every LOD
\* above 0 stands at or past the upper right x of its lod_bounds (LOD 0 is
\* moved by the input regions only and is left out).
C10_CursorsFlushedAtNone ==
    cc_pc = "done" =>
        \A i \in 2..Len(cursors) :
            cursors[i].start[1] >= cursors[i].lod_bounds[2][1]

\* One tile of LOD k, aligned to a multiple of its size on both axes,
\* contains the rectangle bds.
OneTileCovers(k, bds) ==
    /\ bds[1][1] \div TileSize(k) = (bds[2][1] - 1) \div TileSize(k)
    /\ bds[1][2] \div TileSize(k) = (bds[2][2] - 1) \div TileSize(k)

\* The smallest such k.
RECURSIVE EnclosingLod(_, _)
EnclosingLod(k, bds) ==
    IF k >= MAX_LOD \/ OneTileCovers(k, bds) THEN k
    ELSE EnclosingLod(k + 1, bds)

\* C11: ColumnCursors::new builds the LODs 0..K, K the smallest LOD at which
\* one aligned tile contains the bounds of the group, and the scan limits of
\* LOD K are that tile.
C11_LodsUpToEnclosingTile ==
    cc_pc # "idle" =>
        LET K == EnclosingLod(0, bounds)
        IN  /\ Len(cursors) = K + 1
            /\ cursors[K + 1].lod_bounds[1][1] <= bounds[1][1]
            /\ cursors[K + 1].lod_bounds[1][2] <= bounds[1][2]
            /\ cursors[K + 1].lod_bounds[2][1] >= bounds[2][1]
            /\ cursors[K + 1].lod_bounds[2][2] >= bounds[2][2]
            /\ cursors[K + 1].lod_bounds[1][1] % TileSize(K) = 0
            /\ cursors[K + 1].lod_bounds[1][2] % TileSize(K) = 0
            /\ cursors[K + 1].lod_bounds[2][1]
                   - cursors[K + 1].lod_bounds[1][1] = TileSize(K)
            /\ cursors[K + 1].lod_bounds[2][2]
                   - cursors[K + 1].lod_bounds[1][2] = TileSize(K)


\* ---------------------------------------------------------------------------
\* The scheduler over full rectangular blocks of regions at the origin.

MaxBlock == 4

\* The cells of the block of w columns and h rows at the origin.
BlockCells(w, h) == (0..(w - 1)) \X (0..(h - 1))

\* ColumnCursors::new(group) for a block.
InitBlocks ==
    /\ IdleViz
    /\ IdleGroup
    /\ IdleHeights
    /\ IdleRun
    /\ IdleFcgi
    /\ \E w \in 1..MaxBlock, h \in 1..MaxBlock :
          LET cc == NewColumnCursors(GroupOfCells(BlockCells(w, h)))
          IN  /\ bounds = cc.bounds
              /\ cursors = cc.cursors
              /\ regions = cc.regions
              /\ working_lod = cc.working_lod
              /\ progress_made = cc.progress_made
    /\ cc_pc = "iter"
    /\ cc_out = <<>>
    /\ cc_last = <<>>

SpecBlocks == InitBlocks /\ [][NextCursors]_vars

\* LOD and location of each item returned so far.
OutKeys ==
    [i \in 1..Len(cc_out) |->
        <<cc_out[i].lod, cc_out[i].region_coords_x, cc_out[i].region_coords_y>>]

\* The group is the 4x4 block at the origin.
IsBlock4x4 == regions = GroupOfCells(BlockCells(4, 4))

\* LOD-0 regions, LOD-1 tiles and the LOD-2 tile of that block, each LOD in
\* (x, y) order.
Block4x4Expected ==
    [i \in 1..16 |-> <<0, ((i - 1) \div 4) * 256, ((i - 1) % 4) * 256>>]
    \o <<<<1, 0, 0>>, <<1, 0, 512>>, <<1, 512, 0>>, <<1, 512, 512>>>>
    \o <<<<2, 0, 0>>>>

\* C12: for the 4x4 block of 256 m regions at the origin the scheduler returns
\* exactly 21 items: the 16 regions in (x, y) order, then the four LOD-1 tiles
\* in (x, y) order, then the LOD-2 tile.
C12_Block4x4Yields21Items ==
    (IsBlock4x4 /\ cc_pc = "done") => OutKeys = Block4x4Expected

\* The group is the four regions of one 2x2 block whose corner is a multiple
\* of twice the region size on both axes.
IsAligned2x2 ==
    \E bx \in 0..MaxGroupX, by \in 0..MaxGroupY :
        /\ bx % 2 = 0
        /\ by % 2 = 0
        /\ {<<bx, by>>, <<bx + 1, by + 1>>} \subseteq GroupCells
        /\ regions = GroupOfCells({<<bx, by>>, <<bx, by + 1>>,
                                   <<bx + 1, by>>, <<bx + 1, by + 1>>})

\* C13: for the four regions of one aligned 2x2 block the scheduler returns
\* exactly four LOD-0 items and exactly one LOD-1 item, and nothing at
\* LOD 2 or above.
C13_Aligned2x2YieldsOneLod1 ==
    (IsAligned2x2 /\ cc_pc = "done") =>
        /\ Len(ItemsAtLod(0)) = 4
        /\ Len(ItemsAtLod(1)) = 1
        /\ \A i \in 1..Len(cc_out) : cc_out[i].lod <= 1

\* ---------------------------------------------------------------------------
\* The terrain generator: the height field cache and process_group.

\* RegionLodKey
RegionLodKey(x, y, lod) == <<x, y, lod>>

\* HeightFieldCache::insert.  HashMap::insert stores the new field whether or
\* not the key was present; a key that was present makes insert panic.
insert(cache, key, height_map) ==
    [cache |-> (key :> height_map) @@ cache, panic |-> key \in DOMAIN cache]

\* The same, the key staying in the cache.
take_keeps_key(cache, key) ==
    [cache |-> cache,
     result |-> IF key \in DOMAIN cache THEN <<cache[key]>> ELSE <<>>]

\* HeightFieldCache::take: HashMap::remove.
take(cache, key) ==
    [cache |-> Restrict(cache, DOMAIN cache \ {key}),
     result |-> IF key \in DOMAIN cache THEN <<cache[key]>> ELSE <<>>]

\* A height field: its size and the tile it was read or combined for.  The
\* elevations in storage span 0 to 100 and every water level is 20.
HeightField(size_x, size_y, of) ==
    [size_x |-> size_x, size_y |-> size_y, of |-> of,
     zmin |-> 0, zmax |-> 100, water_level |-> 20]

\* HeightField::combine of four optional fields: <<>> for Err (all four
\* None), else the field of twice the size of the first one present.
combine(h) ==
    IF \A i \in 1..4 : h[i] = <<>> THEN <<>>
    ELSE LET non_empty == h[Min({i \in 1..4 : h[i] # <<>>})][1]
         IN  <<HeightField(non_empty.size_x * 2, non_empty.size_y * 2,
                           <<h[1], h[2], h[3], h[4]>>)>>

\* HeightField::halve: two assertions on the size, then todo!(): no call
\* returns.
halve(hf) ==
    [panic |-> hf.size_x % 2 # 1 \/ hf.size_y % 2 # 1 \/ TRUE, field |-> hf]

\* The outcome of one build: the cache after it, the takes it made and
\* "ok", "error" (Err returned) or "panic".
BuildResult(cache, takes, status) ==
    [cache |-> cache, takes |-> takes, status |-> status]

\* get_height_field_one_region, the row of the region being in storage.
get_height_field_one_region(cache, region_loc_x, region_loc_y, size) ==
    LET key == RegionLodKey(region_loc_x, region_loc_y, 0)
        ins == insert(cache, key, HeightField(size[1], size[2], key))
    IN  BuildResult(ins.cache, <<>>, IF ins.panic THEN "panic" ELSE "ok")

\* get_height_field_multi_region
get_height_field_multi_region(cache, region_loc_x, region_loc_y, region_size, lod) ==
    IF lod <= 0 THEN BuildResult(cache, <<>>, "panic")
    ELSE
    LET key1 == RegionLodKey(region_loc_x, region_loc_y, lod - 1)
        key2 == RegionLodKey(region_loc_x + region_size[1] \div 2,
                             region_loc_y, lod - 1)
        key3 == RegionLodKey(region_loc_x,
                             region_loc_y + region_size[2] \div 2, lod - 1)
        key4 == RegionLodKey(region_loc_x + region_size[1] \div 2,
                             region_loc_y + region_size[2] \div 2, lod - 1)
        t1 == take(cache, key1)
        t2 == take(t1.cache, key2)
        t3 == take(t2.cache, key3)
        t4 == take(t3.cache, key4)
        takes == <<<<key1, t1.result # <<>>>>, <<key2, t2.result # <<>>>>,
                   <<key3, t3.result # <<>>>>, <<key4, t4.result # <<>>>>>>
        combined == combine(<<t1.result, t2.result, t3.result, t4.result>>)
    IN  IF combined = <<>> THEN BuildResult(t4.cache, takes, "error")
        ELSE IF halve(combined[1]).panic
        THEN BuildResult(t4.cache, takes, "panic")
        ELSE LET ins == insert(t4.cache,
                               RegionLodKey(region_loc_x, region_loc_y, lod),
                               halve(combined[1]).field)
             IN  BuildResult(ins.cache, takes,
                             IF ins.panic THEN "panic" ELSE "ok")

\* build_impostor_for_lod: the height field of the tile, left in the cache
\* under the key of the tile.
get_height_field(cache, region) ==
    IF region.lod = 0
    THEN get_height_field_one_region(cache, region.region_coords_x,
                                     region.region_coords_y,
                                     <<region.size_x, region.size_y>>)
    ELSE get_height_field_multi_region(cache, region.region_coords_x,
                                       region.region_coords_y,
                                       <<region.size_x, region.size_y>>,
                                       region.lod)

\* What the builds read and change of the TerrainGenerator.
Generator ==
    [tile_assets |-> tile_assets, files |-> files, stats |-> stats,
     generate_mesh |-> tg_generate_mesh]

\* The number of decimal digits of n.
RECURSIVE Digits(_)
Digits(n) == IF n < 10 THEN 1 ELSE 1 + Digits(n \div 10)

\* An impostor_name that refuses no name.
impostor_name_any_length(prefix, region, height_field, lod, viz_group_id, hash) ==
    <<<<prefix, region.region_coords_x, region.region_coords_y, region.size_x,
        region.size_y, height_field.zmax - height_field.zmin,
        height_field.zmin, lod, viz_group_id, height_field.water_level,
        hash>>>>

\* impostor_name: <<>> for Err, else <<the eleven fields of the name>>, which
\* format! joins with "_".  The three {:.2} fields are whole numbers here:
\* their digits, ".00" and a sign.
impostor_name(prefix, region, height_field, lod, viz_group_id, hash) ==
    LET sz == height_field.zmax - height_field.zmin
        offset == height_field.zmin
        water_level == height_field.water_level
        float_len(v) == IF v < 0 THEN Digits(0 - v) + 4 ELSE Digits(v) + 3
        len == Len(prefix) + Digits(region.region_coords_x)
                   + Digits(region.region_coords_y) + Digits(region.size_x)
                   + Digits(region.size_y) + float_len(sz) + float_len(offset)
                   + Digits(lod) + Digits(viz_group_id)
                   + float_len(water_level) + 8 + 10
    IN  IF len > 63 THEN <<>>
        ELSE <<<<prefix, region.region_coords_x, region.region_coords_y,
                 region.size_x, region.size_y, sz, offset, lod, viz_group_id,
                 water_level, hash>>>>

\* str::to_lowercase on the names of grids.
to_lowercase(grid) == IF grid \in {"Test", "TEST"} THEN "test" ELSE grid

\* A get_asset_uuid whose query leaves out the hash of the asset.
get_asset_uuid_any_hash(assets, grid, region_loc, region_size, asset_type, asset_hash) ==
    LET found == {a \in assets : /\ a.grid = to_lowercase(grid)
                                 /\ a.region_loc = region_loc
                                 /\ a.region_size = region_size
                                 /\ a.asset_type = asset_type}
    IN  IF found = {} THEN {<<>>} ELSE {<<a.asset_uuid>> : a \in found}

\* get_asset_uuid, the query succeeding: the values it can return, <<>> for
\* None.  Of several rows that match, the one the database hands over first
\* is returned.
get_asset_uuid(assets, grid, region_loc, region_size, asset_type, asset_hash) ==
    LET found == {a \in assets : /\ a.grid = to_lowercase(grid)
                                 /\ a.region_loc = region_loc
                                 /\ a.region_size = region_size
                                 /\ a.asset_type = asset_type
                                 /\ a.asset_hash = asset_hash}
    IN  IF found = {} THEN {<<>>} ELSE {<<a.asset_uuid>> : a \in found}

\* build_impostor_sculpt, one asset: reuse of the UUID found, or the file
\* saved under the name.
reuse_or_save(gen, name, uuid_opt) ==
    IF uuid_opt # <<>>
    THEN [gen EXCEPT !.stats.assets_reused = @ + 1]
    ELSE [gen EXCEPT !.files = Append(@, name),
                     !.stats.assets_generated = @ + 1]

\* build_impostor_sculpt from the texture on, the sculpt asset done.
build_impostor_texture(gen, region, height_field, viz_group_id, sculpt_hash, sculpt_uuid_opt) ==
    LET terrain_image_hash ==
            [image |-> "texture",
             of |-> <<region.region_coords_x, region.region_coords_y,
                      region.lod>>]
        terrain_image_name ==
            impostor_name("RT0", region, height_field, region.lod,
                          viz_group_id, terrain_image_hash)
    IN  IF terrain_image_name = <<>>
        THEN {[status |-> "error", gen |-> gen, data |-> <<>>]}
        ELSE {[status |-> "ok",
               gen |-> reuse_or_save(gen, terrain_image_name[1], uuid_opt),
               \* assemble_region_impostor_data
               data |-> <<[grid |-> region.grid,
                           name |-> region.name,
                           region_loc |-> <<region.region_coords_x,
                                            region.region_coords_y>>,
                           region_size |-> <<region.size_x, region.size_y>>,
                           impostor_lod |-> region.lod,
                           viz_group |-> viz_group_id,
                           sculpt_uuid |-> sculpt_uuid_opt,
                           sculpt_hash |-> sculpt_hash,
                           base_texture_uuid |-> uuid_opt,
                           base_texture_hash |-> terrain_image_hash]>>] :
                uuid_opt \in get_asset_uuid(
                                 gen.tile_assets, region.grid,
                                 <<region.region_coords_x,
                                   region.region_coords_y>>,
                                 <<region.size_x, region.size_y>>,
                                 "BaseTexture", terrain_image_hash)}
             \* the query of get_asset_uuid failing
             \cup {[status |-> "error", gen |-> gen, data |-> <<>>]}

\* build_impostor_sculpt: the outcomes it can have.  The data assembled at
\* the end is logged and dropped.
build_impostor_sculpt(gen, region, height_field, viz_group_id) ==
    LET sculpt_hash == [image |-> "sculpt", of |-> height_field.of]
        sculpt_name == impostor_name("RS", region, height_field, region.lod,
                                     viz_group_id, sculpt_hash)
    IN  IF sculpt_name = <<>>
        THEN {[status |-> "error", gen |-> gen, data |-> <<>>]}
        ELSE UNION {build_impostor_texture(
                        reuse_or_save(gen, sculpt_name[1], sculpt_uuid_opt),
                        region, height_field, viz_group_id, sculpt_hash,
                        sculpt_uuid_opt) :
                    sculpt_uuid_opt \in get_asset_uuid(
                                            gen.tile_assets, region.grid,
                                            <<region.region_coords_x,
                                              region.region_coords_y>>,
                                            <<region.size_x, region.size_y>>,
                                            "SculptTexture", sculpt_hash)}
             \* the query of get_asset_uuid failing
             \cup {[status |-> "error", gen |-> gen, data |-> <<>>]}

\* build_impostor, get_hashes_one_tile finding one row at most:
\* build_impostor_mesh is todo!().
build_impostor(gen, region, height_field, viz_group_id) ==
    IF gen.generate_mesh
    THEN {[status |-> "panic", gen |-> gen, data |-> <<>>]}
    ELSE build_impostor_sculpt(gen, region, height_field, viz_group_id)

\* build_impostor_for_lod: the outcomes it can have.
build_impostor_for_lod(gen, cache, region, viz_group_id) ==
    IF get_height_field(cache, region).status # "ok"
    THEN {[status |-> get_height_field(cache, region).status,
           cache |-> get_height_field(cache, region).cache,
           takes |-> get_height_field(cache, region).takes,
           gen |-> gen, data |-> <<>>]}
    ELSE {[status |-> b.status,
           cache |-> get_height_field(cache, region).cache,
           takes |-> get_height_field(cache, region).takes,
           gen |-> b.gen, data |-> b.data] :
            b \in build_impostor(
                      gen, region,
                      get_height_field(cache, region).cache[
                          RegionLodKey(region.region_coords_x,
                                       region.region_coords_y, region.lod)],
                      viz_group_id)}
         \* get_height_field_one_region: its query failing or finding no row
         \cup {[status |-> "error", cache |-> cache, takes |-> <<>>,
                 gen |-> gen, data |-> <<>>] : l \in {region.lod} \cap {0}}

\* homogeneous_group_size: <<>> for None, <<size>> when all members of the
\* group have one size.
homogeneous_group_size(group) ==
    IF group = <<>> THEN <<>>
    ELSE IF \A i \in 1..Len(group) :
               /\ group[i].size_x = group[1].size_x
               /\ group[i].size_y = group[1].size_y
    THEN <<<<group[1].size_x, group[1].size_y>>>>
    ELSE <<>>

\* Groups whose members differ in size.
MixedGroups ==
    {<<TileData("Test", 0, 0, 512, 512, "1", 0),
       TileData("Test", 512, 0, 256, 256, "2", 0)>>,
     <<TileData("Test", 0, 0, 256, 256, "1", 0),
       TileData("Test", 256, 0, 512, 512, "2", 0),
       TileData("Test", 768, 256, 256, 256, "3", 0)>>}

\* The groups given to process_group.
ProcessedGroups ==
    {GroupOfCells(S) : S \in ConnectedSets(MaxGroup)} \cup MixedGroups

\* process_group(group, id) is entered, the cache empty.
InitGroup ==
    /\ IdleViz
    /\ IdleCursors
    /\ IdleHeights
    /\ IdleRun
    /\ IdleFcgi
    /\ height_field_cache = EmptyMap
    /\ hc_last = <<>>
    /\ pg_pc = "start"
    /\ pg_group \in ProcessedGroups
    /\ pg_next = 0
    /\ pg_yielded = <<>>
    /\ pg_takes = <<>>

\* The same, every group of one or more members going to the scheduler.
UseLods_any_length(group) ==
    homogeneous_group_size(group) # <<>> /\ Len(group) > 0

\* process_group: the test that chooses the multi-LOD loop.
UseLods(group) ==
    homogeneous_group_size(group) # <<>> /\ Len(group) > 1

\* process_group up to the start of one of its two loops.
StartGroup ==
    /\ pg_pc = "start"
    /\ IF UseLods(pg_group)
       THEN \E cc \in {NewColumnCursors(pg_group)} :
               /\ StoreCursors(cc)
               /\ cc_pc' = "iter"
               /\ pg_pc' = IF cc.panic THEN "panic" ELSE "lods"
               /\ pg_next' = pg_next
       ELSE /\ pg_pc' = "lod0"
            /\ pg_next' = 1
            /\ UNCHANGED <<bounds, cursors, regions, working_lod,
                           progress_made, cc_pc>>
    /\ UNCHANGED <<fcgiVars, runVars, hfVars, vizVars, cc_out, cc_last,
                   height_field_cache, hc_last,
                   pg_group, pg_yielded, pg_takes>>

\* One turn of the loop over the scheduler: next, then the build of the tile.
BuildLods ==
    /\ pg_pc = "lods"
    /\ \E r \in {next(CursorsState)} :
          /\ StoreCursors(r.cc)
          /\ cc_out' = cc_out \o r.item
          /\ cc_last' = r.item
          /\ pg_yielded' = pg_yielded \o r.item
          /\ IF r.panic \/ r.item = <<>>
             THEN /\ pg_pc' = IF r.panic THEN "panic" ELSE "finished"
                  /\ cc_pc' = IF r.panic THEN "panic" ELSE "done"
                  /\ UNCHANGED <<height_field_cache, pg_takes>>
                  /\ UNCHANGED <<stats, files, built>>
             ELSE \E b \in build_impostor_for_lod(Generator,
                                                  height_field_cache,
                                                  r.item[1], grid_group_id) :
                     /\ height_field_cache' = b.cache
                     /\ pg_takes' = pg_takes \o b.takes
                     /\ stats' = b.gen.stats
                     /\ files' = b.gen.files
                     /\ built' = built \o b.data
                     /\ pg_pc' = IF b.status = "ok" THEN "lods" ELSE b.status
                     /\ cc_pc' = "iter"
    /\ UNCHANGED <<run_pc, run_args, tg_generate_mesh, grids,
                   raw_terrain_heights, initial_impostors, tile_assets,
                   grid_groups, grid_group_id>>
    /\ UNCHANGED <<fcgiVars, hfVars, vizVars, hc_last, pg_group, pg_next>>

\* One turn of the loop over the members of the group, LOD 0 only.
BuildLod0 ==
    /\ pg_pc = "lod0"
    /\ IF pg_next > Len(pg_group)
       THEN /\ pg_pc' = "finished"
            /\ UNCHANGED <<height_field_cache, pg_takes, pg_next, pg_yielded,
                           stats, files, built>>
       ELSE \E b \in build_impostor_for_lod(Generator, height_field_cache,
                                            pg_group[pg_next],
                                            grid_group_id) :
               /\ height_field_cache' = b.cache
               /\ pg_takes' = pg_takes \o b.takes
               /\ stats' = b.gen.stats
               /\ files' = b.gen.files
               /\ built' = built \o b.data
               /\ pg_yielded' = Append(pg_yielded, pg_group[pg_next])
               /\ pg_next' = pg_next + 1
               /\ pg_pc' = IF b.status = "ok" THEN "lod0" ELSE b.status
    /\ UNCHANGED <<run_pc, run_args, tg_generate_mesh, grids,
                   raw_terrain_heights, initial_impostors, tile_assets,
                   grid_groups, grid_group_id>>
    /\ UNCHANGED <<fcgiVars, hfVars, vizVars, ccVars, hc_last, pg_group>>

NextGroup == StartGroup \/ BuildLods \/ BuildLod0

SpecGroup == InitGroup /\ [][NextGroup]_vars

\* C14: process_group runs the scheduler only for a group of one size with
\* more than one member.  A group of one region and a group of mixed sizes
\* are processed member by member at LOD 0: what has been handed to the build
\* is a prefix of the group, all of it once the group is finished, and
\* nothing of LOD 1 or above.
C14_SchedulerOnlyForHomogeneousGroups ==
    /\ cursors # <<>> =>
          (homogeneous_group_size(pg_group) # <<>> /\ Len(pg_group) > 1)
    /\ (pg_pc \notin {"idle", "start"}
        /\ (Len(pg_group) = 1 \/ homogeneous_group_size(pg_group) = <<>>)) =>
          /\ cursors = <<>>
          /\ IsPrefix(pg_yielded, pg_group)
          /\ pg_pc = "finished" => pg_yielded = pg_group
          /\ \A i \in 1..Len(pg_yielded) : pg_yielded[i].lod = 0

\* A group of one region has been processed to the end.
C14_Witness ==
    /\ pg_pc = "finished"
    /\ Len(pg_group) = 1
    /\ pg_yielded = pg_group

\* The takes that found a field.
FoundTakes == {i \in 1..Len(pg_takes) : pg_takes[i][2]}

\* Some region of the group lies in the tile of LOD lod at (x, y).
HasLandUnder(x, y, lod) ==
    \E i \in 1..Len(pg_group) :
        /\ pg_group[i].region_coords_x >= x
        /\ pg_group[i].region_coords_x < x + TileSize(lod)
        /\ pg_group[i].region_coords_y >= y
        /\ pg_group[i].region_coords_y < y + TileSize(lod)

\* C15: while process_group handles a group of one size with more than one
\* member, no key is taken twice, no build of a parent tile finds the field
\* of a child that has land missing, and when the group is finished no field
\* below the top LOD is left in the cache.
C15_FieldsTakenOnceByParent ==
    UseLods(pg_group) =>
        /\ \A i, j \in FoundTakes : pg_takes[i][1] = pg_takes[j][1] => i = j
        /\ \A i \in 1..Len(pg_takes) :
              HasLandUnder(pg_takes[i][1][1], pg_takes[i][1][2],
                           pg_takes[i][1][3]) => pg_takes[i][2]
        /\ pg_pc = "finished" =>
              \A key \in DOMAIN height_field_cache :
                  key[3] >= Len(cursors) - 1

\* The columns (x) of the fields of one LOD in the cache.
CachedColumns(lod) ==
    {key[1] : key \in {k \in DOMAIN height_field_cache : k[3] = lod}}

\* C16: at every moment while a group is processed the cache holds, for each
\* LOD, fields of at most two columns (the current and the previous one); in
\* particular never the LOD-0 fields of more than two columns of the group.
C16_CacheHoldsTwoColumnsPerLod ==
    pg_pc \in {"lods", "lod0", "finished"} =>
        \A lod \in 0..MAX_LOD : Cardinality(CachedColumns(lod)) <= 2

\* ---------------------------------------------------------------------------
\* The height field cache on its own: any sequence of insert and take.

CacheKeys ==
    {RegionLodKey(0, 0, 0), RegionLodKey(256, 0, 0), RegionLodKey(0, 0, 1)}

CacheFields ==
    {HeightField(256, 256, "first"), HeightField(256, 256, "second")}

\* What is remembered of an operation: its kind, its key, the field given to
\* insert, what take returned, and whether it panicked.
CacheOp(op, key, field, result, panic) ==
    [op |-> op, key |-> key, field |-> field, result |-> result,
     panic |-> panic]

\* HeightFieldCache::new
InitCache ==
    /\ IdleViz
    /\ IdleCursors
    /\ IdleHeights
    /\ IdleRun
    /\ IdleFcgi
    /\ height_field_cache = EmptyMap
    /\ hc_last = <<>>
    /\ pg_pc = "idle"
    /\ pg_group = <<>>
    /\ pg_next = 0
    /\ pg_yielded = <<>>
    /\ pg_takes = <<>>

\* The operation before the last one, <<>> if there was none.
LastOp == IF hc_last = <<>> THEN <<>> ELSE <<hc_last.this>>

\* No operation has panicked.
CacheRunning == IF hc_last = <<>> THEN TRUE ELSE ~hc_last.this.panic

\* A call of HeightFieldCache::insert
CacheInsert ==
    /\ CacheRunning
    /\ \E key \in CacheKeys, hf \in CacheFields :
          \E r \in {insert(height_field_cache, key, hf)} :
              /\ height_field_cache' = r.cache
              /\ hc_last' = [this |-> CacheOp("insert", key, <<hf>>, <<>>,
                                              r.panic),
                             before |-> height_field_cache,
                             prev |-> LastOp]
    /\ UNCHANGED <<fcgiVars, runVars, hfVars, vizVars, ccVars, pg_pc, pg_group, pg_next, pg_yielded,
                   pg_takes>>

\* A call of HeightFieldCache::take
CacheTake ==
    /\ CacheRunning
    /\ \E key \in CacheKeys :
          \E r \in {take(height_field_cache, key)} :
              /\ height_field_cache' = r.cache
              /\ hc_last' = [this |-> CacheOp("take", key, <<>>, r.result,
                                              FALSE),
                             before |-> height_field_cache,
                             prev |-> LastOp]
    /\ UNCHANGED <<fcgiVars, runVars, hfVars, vizVars, ccVars, pg_pc, pg_group, pg_next, pg_yielded,
                   pg_takes>>

NextCache == CacheInsert \/ CacheTake

SpecCache == InitCache /\ [][NextCache]_vars

\* The cache agrees with f outside key.
SameExcept(f, key) ==
    /\ DOMAIN height_field_cache \ {key} = DOMAIN f \ {key}
    /\ \A k \in DOMAIN f \ {key} : height_field_cache[k] = f[k]

\* C17: insert of a key that is present fails (it panics), and an insert that
\* does not fail has added the field under a key that was absent; take of a
\* present key returns its field and removes the key, so that a second take
\* of the key returns None; take of an absent key returns None and leaves the
\* cache as it was.
C17_InsertFailsOnPresentTakeRemoves ==
    hc_last # <<>> =>
        LET key == hc_last.this.key
            before == hc_last.before
        IN  /\ SameExcept(before, key)
            /\ hc_last.this.op = "insert" =>
                  /\ hc_last.this.panic <=> key \in DOMAIN before
                  /\ ~hc_last.this.panic =>
                        /\ key \in DOMAIN height_field_cache
                        /\ <<height_field_cache[key]>> = hc_last.this.field
            /\ hc_last.this.op = "take" =>
                  /\ key \notin DOMAIN height_field_cache
                  /\ key \in DOMAIN before =>
                        hc_last.this.result = <<before[key]>>
                  /\ key \notin DOMAIN before =>
                        /\ hc_last.this.result = <<>>
                        /\ height_field_cache = before
                  /\ (hc_last.prev # <<>> /\ hc_last.prev[1].op = "take"
                      /\ hc_last.prev[1].key = key) =>
                        hc_last.this.result = <<>>

\* A key has been taken twice in a row: the first take returned its field,
\* the second None, and another key is still in the cache.
C17_Witness ==
    /\ hc_last # <<>>
    /\ hc_last.this.op = "take"
    /\ hc_last.this.result = <<>>
    /\ hc_last.prev # <<>>
    /\ hc_last.prev[1].op = "take"
    /\ hc_last.prev[1].key = hc_last.this.key
    /\ hc_last.prev[1].result # <<>>
    /\ DOMAIN height_field_cache # {}

\* ---------------------------------------------------------------------------
\* VizGroups fed with regions of several grids, in any order.

\* Longest stream of several grids.
MaxStream == 3
\* Its region positions are 0..MaxStreamCell units on both axes.
MaxStreamCell == 1

\* The grids of the stream, and their order.
StreamGrids == {"A", "B"}

GridRank(g) == IF g = "A" THEN 1 ELSE 2

StreamRegions(name) ==
    {RegionData(g, x * VizUnit, y * VizUnit, sh[1] * VizUnit, sh[2] * VizUnit,
                name) :
        g \in StreamGrids, x \in 0..MaxStreamCell, y \in 0..MaxStreamCell,
        sh \in VizShapes}

\* One call of add_region_data with any region: vz_input is the stream so
\* far, vz_result what the call returned.
AddAnyRegionData ==
    /\ vz_pc = "input"
    /\ Len(vz_input) < MaxStream
    /\ \E r \in StreamRegions(Len(vz_input) + 1) :
          \E s \in {add_region_data(VizState, r)} :
              /\ StoreViz(s)
              /\ vz_pc' = IF s.panic THEN "panic" ELSE "input"
              /\ vz_input' = IF s.panic THEN <<>> ELSE Append(vz_input, r)
              /\ vz_result' = IF s.panic THEN <<>>
                              ELSE add_region_data_result(VizState, r)
    /\ UNCHANGED <<fcgiVars, runVars, hfVars, ccVars, pgVars>>

NextGrids == AddAnyRegionData \/ EndGrid

SpecGrids == InitViz /\ [][NextGrids]_vars

\* (grid, x, y) order, equal positions allowed.
GridLexOrdered(p, r) ==
    \/ GridRank(p.grid) < GridRank(r.grid)
    \/ p.grid = r.grid /\ LexOrdered(p, r)

\* The stream so far is in (grid, x, y) order.
StreamOrdered ==
    \A i \in 1..(Len(vz_input) - 1) :
        GridLexOrdered(vz_input[i], vz_input[i + 1])

\* The positions 1..n of the stream that hold a region of grid g.
OfGrid(g, n) == {i \in 1..n : vz_input[i].grid = g}

\* The groups gs hold the regions at the positions I of the stream, each
\* once, and nothing else, and no group is empty.
HoldsExactly(gs, I) ==
    /\ \A i \in I :
          Cardinality({p \in GroupSlots(gs) :
                          gs[p[1]][p[2]] = vz_input[i]}) = 1
    /\ \A p \in GroupSlots(gs) : \E i \in I : gs[p[1]][p[2]] = vz_input[i]
    /\ \A g \in 1..Len(gs) : gs[g] # <<>>

\* C18: on a stream of several grids in (grid, x, y) order, add_region_data
\* returns None while the grid stays the same and, on the first region of
\* another grid, Some(groups) holding exactly the regions of the previous
\* grid; end_grid returns the groups of the last grid; no group holds regions
\* of two grids.
C18_GroupsDeliveredPerGrid ==
    LET n == Len(vz_input)
    IN  (StreamOrdered /\ n >= 1) =>
          /\ (vz_pc = "input" /\ n = 1) => vz_result = <<>>
          /\ (vz_pc = "input" /\ n >= 2
              /\ vz_input[n].grid = vz_input[n - 1].grid) => vz_result = <<>>
          /\ (vz_pc = "input" /\ n >= 2
              /\ vz_input[n].grid # vz_input[n - 1].grid) =>
                /\ vz_result # <<>>
                /\ HoldsExactly(vz_result[1],
                                OfGrid(vz_input[n - 1].grid, n - 1))
          /\ vz_pc = "returned" =>
                /\ vz_result # <<>>
                /\ HoldsExactly(vz_result[1], OfGrid(vz_input[n].grid, n))
          /\ vz_result # <<>> =>
                \A g \in 1..Len(vz_result[1]) :
                    \A i, j \in 1..Len(vz_result[1][g]) :
                        vz_result[1][g][i].grid = vz_result[1][g][j].grid

\* Two regions of grid A were fed, then a region of grid B: the call
\* returned the regions of A.
C18_Witness ==
    /\ vz_pc = "input"
    /\ Len(vz_input) = 3
    /\ StreamOrdered
    /\ vz_input[1].grid = "A"
    /\ vz_input[2].grid = "A"
    /\ vz_input[3].grid = "B"
    /\ vz_result # <<>>
    /\ HoldsExactly(vz_result[1], {1, 2})

\* Somewhere in the stream x decreases inside a grid.
XDecreases ==
    \E i \in 1..(Len(vz_input) - 1) :
        /\ vz_input[i].grid = vz_input[i + 1].grid
        /\ vz_input[i + 1].region_coords_x < vz_input[i].region_coords_x

\* Somewhere in the stream y decreases inside a column.
YDecreases ==
    \E i \in 1..(Len(vz_input) - 1) :
        /\ vz_input[i].grid = vz_input[i + 1].grid
        /\ vz_input[i + 1].region_coords_x = vz_input[i].region_coords_x
        /\ vz_input[i + 1].region_coords_y < vz_input[i].region_coords_y

\* A grid appears again after regions of another grid.
GridReappears ==
    \E i, j, k \in 1..Len(vz_input) :
        /\ i < j
        /\ j < k
        /\ vz_input[i].grid = vz_input[k].grid
        /\ vz_input[j].grid # vz_input[i].grid

\* C19: a stream that is out of (grid, x, y) order, by an x that decreases
\* inside a grid, a y that decreases inside a column or a grid that appears
\* again after another grid, is rejected: no call hands out completed groups
\* for it.
C19_UnorderedStreamRejected ==
    (XDecreases \/ YDecreases \/ GridReappears) =>
        /\ vz_pc # "returned"
        /\ vz_result = <<>>

\* p and r are the same region: same grid, position and size.
SameRegion(p, r) ==
    /\ p.grid = r.grid
    /\ p.region_coords_x = r.region_coords_x
    /\ p.region_coords_y = r.region_coords_y
    /\ p.size_x = r.size_x
    /\ p.size_y = r.size_y

\* C20: when the same region is fed twice in a row, the groups end_grid
\* returns hold that region once.
C20_DuplicateRegionCollapsed ==
    vz_pc = "returned" =>
        \A i \in 1..(Len(vz_input) - 1) :
            SameRegion(vz_input[i], vz_input[i + 1]) =>
                Cardinality({p \in GroupSlots(vz_result[1]) :
                                SameRegion(vz_result[1][p[1]][p[2]],
                                           vz_input[i])}) = 1

(***************************************************************************)
(* HeightField at the level of its samples (uploadedregioninfo.rs).  The   *)
(* heights are an Array2D: num_rows, num_columns and the elements in       *)
(* row-major order.  Elevations are whole numbers here.  The generator     *)
(* model above keeps of a field only its size and what it was built of.    *)
(***************************************************************************)
MaxSamples == 5

\* Array2D::filled_with(element, num_rows, num_columns)
filled_with(element, num_rows, num_columns) ==
    [array |-> [n \in 1..(num_rows * num_columns) |-> element],
     num_rows |-> num_rows, num_columns |-> num_columns]

\* Array2D::from_iter_row_major(iterator, num_rows, num_columns): the first
\* num_rows * num_columns items of the iterator, here iterator[0], [1], ...
from_iter_row_major(iterator, num_rows, num_columns) ==
    [array |-> [n \in 1..(num_rows * num_columns) |-> iterator[n - 1]],
     num_rows |-> num_rows, num_columns |-> num_columns]

\* Array2D::get(row, column): <<>> is None
get(a, row, col) ==
    IF row < a.num_rows /\ col < a.num_columns
    THEN <<a.array[row * a.num_columns + col + 1]>>
    ELSE <<>>

\* Array2D::set(row, column, element): ok is FALSE for Err
set(a, row, col, element) ==
    IF row < a.num_rows /\ col < a.num_columns
    THEN [ok |-> TRUE,
          a |-> [a EXCEPT !.array[row * a.num_columns + col + 1] = element]]
    ELSE [ok |-> FALSE, a |-> a]

\* struct HeightField, with its samples
HeightFieldSamples(heights, size_x, size_y, water_level) ==
    [heights |-> heights, size_x |-> size_x, size_y |-> size_y,
     water_level |-> water_level]

\* set_quadrant panics: for some x, y of its two loops the unwrap of
\* v.get(x, y) or that of heights.set fails.
set_quadrant_panics(heights, xstart, ystart, v) ==
    \E x \in 0..(v.num_columns - 1), y \in 0..(v.num_rows - 1) :
        \/ get(v, x, y) = <<>>
        \/ ~set(heights, x + xstart, y + ystart, 0).ok

\* The closure set_quadrant of combine, when it does not panic: every
\* v.get(x, y) is stored at (x + xstart, y + ystart).
set_quadrant(heights, xstart, ystart, v) ==
    [heights EXCEPT !.array =
        [n \in DOMAIN heights.array |->
            LET row == (n - 1) \div heights.num_columns
                col == (n - 1) % heights.num_columns
            IN  IF /\ row - xstart \in 0..(v.num_columns - 1)
                   /\ col - ystart \in 0..(v.num_rows - 1)
                THEN get(v, row - xstart, col - ystart)[1]
                ELSE heights.array[n]]]

INSERT_OFFSETS == <<<<0, 0>>, <<1, 0>>, <<0, 1>>, <<1, 1>>>>

\* The loop of combine over the four inputs, from input i on.
RECURSIVE copy_quadrants(_, _, _, _)
copy_quadrants(heights, h, non_empty, i) ==
    IF i > 4 THEN [panic |-> FALSE, heights |-> heights]
    ELSE LET xstart == IF INSERT_OFFSETS[i][1] = 0 THEN 0
                       ELSE non_empty.heights.num_columns - 1
             ystart == IF INSERT_OFFSETS[i][2] = 0 THEN 0
                       ELSE non_empty.heights.num_rows - 1
         IN  IF h[i] = <<>>
             THEN copy_quadrants(heights, h, non_empty, i + 1)
             ELSE IF set_quadrant_panics(heights, xstart, ystart,
                                         h[i][1].heights)
                  THEN [panic |-> TRUE, heights |-> heights]
                  ELSE copy_quadrants(set_quadrant(heights, xstart, ystart,
                                                   h[i][1].heights),
                                      h, non_empty, i + 1)

\* The first input of combine that is present.
FirstPresent(h) ==
    h[CHOOSE i \in 1..4 : h[i] # <<>> /\ \A j \in 1..(i - 1) : h[j] = <<>>][1]

\* HeightField::combine(h), h being ll, lr, ul, ur, each <<>> or <<field>>:
\* status "ok" with the field, "error" (Err) or "panic".
combine_samples(h) ==
    IF \A i \in 1..4 : h[i] = <<>>
    THEN [status |-> "error", field |-> <<>>]
    ELSE \* cnt_x, cnt_y are given to filled_with as num_rows, num_columns
         LET cnt_x == FirstPresent(h).heights.num_columns * 2 - 1
             cnt_y == FirstPresent(h).heights.num_rows * 2 - 1
             copied == copy_quadrants(filled_with(0, cnt_x, cnt_y), h,
                                      FirstPresent(h), 1)
         IN  IF copied.panic
             THEN [status |-> "panic", field |-> <<>>]
             ELSE [status |-> "ok",
                   field |-> <<HeightFieldSamples(
                                 copied.heights,
                                 FirstPresent(h).size_x * 2,
                                 FirstPresent(h).size_y * 2,
                                 FirstPresent(h).water_level)>>]

(***************************************************************************)
(* The HeightField functions applied to bounded inputs: hf_call is drawn   *)
(* at the start and one action per function applies it.                    *)
(***************************************************************************)
\* The arrays [Option<HeightField>; 4] given to combine: quadrants of
\* equal odd dimensions d[1] x d[2], three or more, whose shared samples
\* agree, any of them None.  As in test_combine, sample (x, y) of a field is
\* heights.get(x, y) and the elevation at (x, y) of the area the four
\* quadrants cover is x + 1 + (y + 1) * 100.
CombineInputs ==
    LET heights(i, d) ==
            [array |-> [n \in 1..(d[1] * d[2]) |->
                           ((n - 1) \div d[2])
                               + INSERT_OFFSETS[i][1] * (d[1] - 1) + 1
                           + (((n - 1) % d[2])
                               + INSERT_OFFSETS[i][2] * (d[2] - 1) + 1) * 100],
             num_rows |-> d[1], num_columns |-> d[2]]
        quadrant(i, d) ==
            {<<>>} \cup
            {<<HeightFieldSamples(heights(i, d), DEFAULT_REGION_SIZE,
                                  DEFAULT_REGION_SIZE, water_level)>> :
                water_level \in {10, 20}}
    IN  UNION {quadrant(1, d) \X quadrant(2, d) \X quadrant(3, d)
                   \X quadrant(4, d)
               : d \in {n \in 3..MaxSamples : n % 2 = 1}
                        \X {n \in 3..MaxSamples : n % 2 = 1}}

\* HeightField::combine(h)
CallCombine ==
    /\ hf_call.fn = "combine"
    /\ hf_result = <<>>
    /\ hf_result' = <<combine_samples(hf_call.args)>>
    /\ UNCHANGED <<fcgiVars, vizVars, ccVars, pgVars, runVars, hf_call>>

\* combine was applied to four present quadrants.
CombinedFour ==
    /\ hf_call.fn = "combine"
    /\ hf_result # <<>>
    /\ \A i \in 1..4 : hf_call.args[i] # <<>>

\* Quadrant i is found in field f at its corner: sample (x, y) of the
\* quadrant is sample (x + ox * (nx - 1), y + oy * (ny - 1)) of f, for nx by
\* ny samples in the quadrant.
InItsCorner(f, q, i) ==
    \A x \in 0..(q.heights.num_rows - 1), y \in 0..(q.heights.num_columns - 1) :
        get(f.heights, x + INSERT_OFFSETS[i][1] * (q.heights.num_rows - 1),
                       y + INSERT_OFFSETS[i][2] * (q.heights.num_columns - 1))
            = get(q.heights, x, y)

\* C21: combine of four present quadrants of equal odd dimensions whose
\* shared samples agree returns a field of twice the samples less one in each
\* direction, every quadrant in its own corner, size_x and size_y doubled;
\* for square and for non-square quadrants.
C21_CombineFourQuadrants ==
    CombinedFour =>
        /\ hf_result[1].status = "ok"
        /\ \A i \in 1..4 :
              LET q == hf_call.args[i][1]
                  f == hf_result[1].field[1]
              IN  /\ f.heights.num_rows = 2 * q.heights.num_rows - 1
                  /\ f.heights.num_columns = 2 * q.heights.num_columns - 1
                  /\ InItsCorner(f, q, i)
                  /\ f.size_x = 2 * q.size_x
                  /\ f.size_y = 2 * q.size_y

\* combine was given a None among its inputs and returned a field.
CombinedWithNone ==
    /\ hf_call.fn = "combine"
    /\ hf_result # <<>>
    /\ \E i \in 1..4 : hf_call.args[i] = <<>>
    /\ IF hf_result = <<>> THEN FALSE ELSE hf_result[1].status = "ok"

\* The inputs of combine that are present.
Present(h) == {i \in 1..4 : h[i] # <<>>}

\* The lowest water_level among the present inputs.
LowestWater(h) ==
    CHOOSE w \in {h[i][1].water_level : i \in Present(h)} :
        \A i \in Present(h) : w <= h[i][1].water_level

\* Sample (x, y) of the combined field lies in quadrant i, q being a present
\* quadrant.
InQuadrant(q, i, x, y) ==
    /\ x - INSERT_OFFSETS[i][1] * (q.heights.num_rows - 1)
           \in 0..(q.heights.num_rows - 1)
    /\ y - INSERT_OFFSETS[i][2] * (q.heights.num_columns - 1)
           \in 0..(q.heights.num_columns - 1)

\* C22: when some inputs of combine are None and one at least is present,
\* every sample of the returned field that lies only in missing quadrants
\* equals the lowest water_level among the present quadrants.
C22_MissingQuadrantsAtLowestWater ==
    CombinedWithNone =>
        \A x \in 0..(hf_result[1].field[1].heights.num_rows - 1),
           y \in 0..(hf_result[1].field[1].heights.num_columns - 1) :
            (\A i \in Present(hf_call.args) :
                 ~InQuadrant(FirstPresent(hf_call.args), i, x, y))
            => get(hf_result[1].field[1].heights, x, y)
                   = <<LowestWater(hf_call.args)>>

\* C23: the water_level of the field combine returns is the lowest
\* water_level among the present quadrants, wherever they stand in the input.
C23_WaterLevelIsLowestPresent ==
    (/\ hf_call.fn = "combine"
     /\ IF hf_result = <<>> THEN FALSE ELSE hf_result[1].status = "ok")
    => hf_result[1].field[1].water_level = LowestWater(hf_call.args)

\* The fields given to halve: odd numbers of samples, three or more, and
\* region sizes in meters both even and odd.
HalveInputs ==
    {HeightFieldSamples([array |-> [n \in 1..(d[1] * d[2]) |-> 100 + n],
                         num_rows |-> d[1], num_columns |-> d[2]],
                        size[1], size[2], 20) :
        d \in {n \in 3..MaxSamples : n % 2 = 1}
                 \X {n \in 3..MaxSamples : n % 2 = 1},
        size \in {DEFAULT_REGION_SIZE, DEFAULT_REGION_SIZE + 1,
                  2 * DEFAULT_REGION_SIZE}
                 \X {DEFAULT_REGION_SIZE, DEFAULT_REGION_SIZE + 1}}

\* HeightField::halve(&self)
CallHalve ==
    /\ hf_call.fn = "halve"
    /\ hf_result = <<>>
    /\ hf_result' = <<halve(hf_call.args)>>
    /\ UNCHANGED <<fcgiVars, vizVars, ccVars, pgVars, runVars, hf_call>>

\* C24: halve of a field of rows x cols samples, both odd and three or more,
\* whatever its size in meters, returns a field of (rows+1)/2 x (cols+1)/2
\* samples whose edge samples are samples of the edges of the input, size_x
\* and size_y unchanged.
C24_HalveKeepsEdgesAndSize ==
    (hf_call.fn = "halve" /\ hf_result # <<>>) =>
        LET in == hf_call.args
            out == hf_result[1].field
            rows == (in.heights.num_rows + 1) \div 2
            cols == (in.heights.num_columns + 1) \div 2
        IN  /\ ~hf_result[1].panic
            /\ out.heights.num_rows = rows
            /\ out.heights.num_columns = cols
            /\ out.size_x = in.size_x
            /\ out.size_y = in.size_y
            /\ \A x \in 0..(rows - 1), y \in 0..(cols - 1) :
                   (x \in {0, rows - 1} \/ y \in {0, cols - 1})
                   => get(out.heights, x, y) = get(in.heights, 2 * x, 2 * y)

(***************************************************************************)
(* Elevations, scales and offsets are f32 in the code.  Below they are     *)
(* counted exactly, in units of 1/256000: 0.001 is 256 units, and a scale  *)
(* that is a whole number of thousandths divides by 256 without rest.      *)
(***************************************************************************)
MaxBlobSamples == 3
MaxScale == 3

\* u8_to_elev(z, scale, offset) = (z as f32) / 256.0 * scale + offset
u8_to_elev(z, scale, offset) == ((z * scale) \div 256) + offset

\* HeightField::new_from_elevs_blob: elevs is the blob, a sequence of u8.
new_from_elevs_blob(elevs, samples_x, samples_y, size_x, size_y, scale, offset, water_level) ==
    IF Len(elevs) # samples_x * samples_y
    THEN [status |-> "error", field |-> <<>>]
    ELSE [status |-> "ok",
          field |-> <<HeightFieldSamples(
                        from_iter_row_major(
                            [n \in 0..(Len(elevs) - 1) |->
                                u8_to_elev(elevs[n + 1], scale, offset)],
                            samples_x, samples_y),
                        size_x, size_y, water_level)>>]

\* HeightField::new_from_unscaled_elevs: elevs is a sequence of sequences of
\* u8, all of the length of the first.
new_from_unscaled_elevs(elevs, size_x, size_y, scale, offset, water_level) ==
    IF elevs = <<>>
    THEN [status |-> "error", field |-> <<>>]
    ELSE LET row_length == Len(elevs[1])
         IN  [status |-> "ok",
              field |-> <<HeightFieldSamples(
                            from_iter_row_major(
                                [n \in 0..(row_length * Len(elevs) - 1) |->
                                    u8_to_elev(elevs[(n \div row_length) + 1]
                                                    [(n % row_length) + 1],
                                               scale, offset)],
                                row_length, Len(elevs)),
                            size_x, size_y, water_level)>>]

\* HeightField::new_from_elevs_blob(elevs, samples_x, samples_y, ...)
CallNewFromElevsBlob ==
    /\ hf_call.fn = "new_from_elevs_blob"
    /\ hf_result = <<>>
    /\ hf_result' = <<new_from_elevs_blob(
                          hf_call.args.elevs, hf_call.args.samples_x,
                          hf_call.args.samples_y, DEFAULT_REGION_SIZE,
                          DEFAULT_REGION_SIZE, hf_call.args.scale,
                          hf_call.args.offset, 20)>>
    /\ UNCHANGED <<fcgiVars, vizVars, ccVars, pgVars, runVars, hf_call>>

\* The array of rows a blob stands for: row x holds the samples (x, y), the
\* blob being the rows one after the other.
RowsOfBlob(elevs, samples_x, samples_y) ==
    [x \in 1..samples_x |->
        [y \in 1..samples_y |-> elevs[(x - 1) * samples_y + y]]]

\* C25: new_from_elevs_blob returns an error when the length of the blob is
\* not samples_x * samples_y, and otherwise the field new_from_unscaled_elevs
\* builds of the rows the blob stands for, square or not.
C25_BlobBuildsSameFieldAsRows ==
    (hf_call.fn = "new_from_elevs_blob" /\ hf_result # <<>>) =>
        IF Len(hf_call.args.elevs)
               # hf_call.args.samples_x * hf_call.args.samples_y
        THEN hf_result[1].status = "error"
        ELSE hf_result[1]
                 = new_from_unscaled_elevs(
                       RowsOfBlob(hf_call.args.elevs, hf_call.args.samples_x,
                                  hf_call.args.samples_y),
                       DEFAULT_REGION_SIZE, DEFAULT_REGION_SIZE,
                       hf_call.args.scale, hf_call.args.offset, 20)

\* elev_min_max_to_scale_offset(zmin, zmax): <<scale, offset>>
elev_min_max_to_scale_offset(zmin, zmax) == <<zmax - zmin, zmin>>

\* The same, the floor cut to eight bits and not clamped.
elev_to_u8_wraps(z, scale, offset) ==
    IF scale > 256 THEN (((z - offset) * 256) \div scale) % 256 ELSE 0

\* elev_to_u8(z, scale, offset): (z - offset) / scale when scale > 0.001,
\* else 0.0; times 256.0, floor, as usize (a negative number gives 0),
\* clamp(0, 255).
elev_to_u8(z, scale, offset) ==
    IF scale > 256
    THEN IF ((z - offset) * 256) \div scale < 0 THEN 0
         ELSE IF ((z - offset) * 256) \div scale > 255 THEN 255
         ELSE ((z - offset) * 256) \div scale
    ELSE 0

\* One elevation through both conversions, as in test_conversions.
CallConversions ==
    /\ hf_call.fn = "conversions"
    /\ hf_result = <<>>
    /\ \E so \in {elev_min_max_to_scale_offset(hf_call.args.zmin,
                                               hf_call.args.zmax)} :
          \E zu8 \in {elev_to_u8(hf_call.args.z, so[1], so[2])} :
             hf_result' = <<[scale |-> so[1], offset |-> so[2], zu8 |-> zu8,
                             znew |-> u8_to_elev(zu8, so[1], so[2])]>>
    /\ UNCHANGED <<fcgiVars, vizVars, ccVars, pgVars, runVars, hf_call>>

CallImpostorName ==
    /\ hf_call.fn = "impostor_name"
    /\ hf_result = <<>>
    /\ hf_result' = <<impostor_name(hf_call.args.prefix, hf_call.args.region,
                                    hf_call.args.height_field,
                                    hf_call.args.region.lod,
                                    hf_call.args.viz_group_id,
                                    hf_call.args.hash)>>
    /\ UNCHANGED <<fcgiVars, vizVars, ccVars, pgVars, runVars, hf_call>>

\* build_impostor_sculpt for one tile, by a generator that has written no
\* file yet.
CallBuildImpostorSculpt ==
    /\ hf_call.fn = "build_impostor_sculpt"
    /\ hf_result = <<>>
    /\ \E b \in build_impostor_sculpt(hf_call.args.gen, hf_call.args.region,
                                      hf_call.args.height_field,
                                      hf_call.args.viz_group_id) :
          hf_result' = <<b>>
    /\ UNCHANGED <<fcgiVars, vizVars, ccVars, pgVars, runVars, hf_call>>

\* The fields format! writes for the tile of the call under a prefix and a
\* hash, in the order of the name.
FieldsOfCall(prefix, hash) ==
    <<prefix, hf_call.args.region.region_coords_x,
      hf_call.args.region.region_coords_y, hf_call.args.region.size_x,
      hf_call.args.region.size_y,
      hf_call.args.height_field.zmax - hf_call.args.height_field.zmin,
      hf_call.args.height_field.zmin, hf_call.args.region.lod,
      hf_call.args.viz_group_id, hf_call.args.height_field.water_level,
      hash>>

\* The number of characters of the name with these fields: the prefix, the
\* integers in decimal, the three {:.2} fields with ".00", the hash in
\* eight hex digits and ten underscores.
NameLen(fields) ==
    Len(fields[1]) + Len(ToString(fields[2])) + Len(ToString(fields[3]))
        + Len(ToString(fields[4])) + Len(ToString(fields[5]))
        + (Len(ToString(fields[6])) + 3) + (Len(ToString(fields[7])) + 3)
        + Len(ToString(fields[8])) + Len(ToString(fields[9]))
        + (Len(ToString(fields[10])) + 3) + 8 + 10

MaxBoundsGroup == 3

\* get_group_bounds on its own.
CallGetGroupBounds ==
    /\ hf_call.fn = "get_group_bounds"
    /\ hf_result = <<>>
    /\ hf_result' = <<get_group_bounds(hf_call.args)>>
    /\ UNCHANGED <<fcgiVars, vizVars, ccVars, pgVars, runVars, hf_call>>

\* C34: get_group_bounds returns an error for an empty group and for a
\* group whose members do not all have one (size_x, size_y); for every other
\* group it returns the least x and the least y of the members and the
\* greatest x + size_x and the greatest y + size_y.
C34_GroupBounds ==
    (hf_call.fn = "get_group_bounds" /\ hf_result # <<>>) =>
        LET group == hf_call.args
            members == 1..Len(hf_call.args)
            r == hf_result[1]
        IN  IF \/ group = <<>>
               \/ \E i, j \in members : \/ group[i].size_x # group[j].size_x
                                        \/ group[i].size_y # group[j].size_y
            THEN r = <<>>
            ELSE /\ r # <<>>
                 /\ \A i \in members :
                       /\ r[1][1][1] <= group[i].region_coords_x
                       /\ r[1][1][2] <= group[i].region_coords_y
                       /\ r[1][2][1] >= group[i].region_coords_x
                                            + group[i].size_x
                       /\ r[1][2][2] >= group[i].region_coords_y
                                            + group[i].size_y
                 /\ \E i \in members : r[1][1][1] = group[i].region_coords_x
                 /\ \E i \in members : r[1][1][2] = group[i].region_coords_y
                 /\ \E i \in members :
                       r[1][2][1] = group[i].region_coords_x + group[i].size_x
                 /\ \E i \in members :
                       r[1][2][2] = group[i].region_coords_y + group[i].size_y

\* Bounds were returned for a group of three whose extremes lie in different
\* members.
C34_Witness ==
    /\ hf_call.fn = "get_group_bounds"
    /\ hf_result # <<>>
    /\ hf_result[1] # <<>>
    /\ Len(hf_call.args) = 3
    /\ hf_result[1][1][1][1] < hf_call.args[1].region_coords_x
    /\ hf_result[1][1][1][2] < hf_call.args[2].region_coords_y
    /\ hf_result[1][1][2][2]
          > hf_call.args[1].region_coords_y + hf_call.args[1].size_y

InitHeights ==
    /\ IdleViz
    /\ IdleCursors
    /\ IdleGroup
    /\ IdleRun
    /\ IdleFcgi
    /\ hf_result = <<>>
    /\ \/ hf_call \in {[fn |-> "combine", args |-> h] : h \in CombineInputs}
       \/ hf_call \in {[fn |-> "halve", args |-> hf] : hf \in HalveInputs}
       \/ \E samples_x, samples_y \in 1..MaxBlobSamples :
             \E len \in {samples_x * samples_y - 1, samples_x * samples_y,
                         samples_x * samples_y + 1} :
                hf_call \in {[fn |-> "new_from_elevs_blob",
                              args |-> [elevs |-> [n \in 1..len |-> n - 1],
                                        samples_x |-> samples_x,
                                        samples_y |-> samples_y,
                                        scale |-> scale, offset |-> offset]] :
                                scale \in {256, 512}, offset \in {0, 7}}
       \/ \E zmin \in {0, 25600}, thousandths \in 0..MaxScale :
             hf_call \in {[fn |-> "conversions",
                           args |-> [z |-> z, zmin |-> zmin,
                                     zmax |-> zmin + thousandths * 256]] :
                             z \in (zmin - 2)..(zmin + thousandths * 256 + 2)}
       \/ \E x, y \in {0, 256000, 2147483392}, lod \in {0, 7},
             viz_group_id \in {0, 9, 100000}, zmin \in {0, -100} :
             hf_call \in
                {[fn |-> f,
                  args |-> [prefix |-> prefix, viz_group_id |-> viz_group_id,
                            hash |-> [image |-> "sculpt", of |-> <<x, y, lod>>],
                            region |-> TileData("test", x, y,
                                                DEFAULT_REGION_SIZE,
                                                DEFAULT_REGION_SIZE, "r", lod),
                            height_field |->
                                [HeightField(DEFAULT_REGION_SIZE,
                                             DEFAULT_REGION_SIZE,
                                             <<x, y, lod>>)
                                    EXCEPT !.zmin = zmin],
                            gen |-> [tile_assets |-> {}, files |-> <<>>,
                                     stats |-> [assets_generated |-> 0,
                                                assets_reused |-> 0],
                                     generate_mesh |-> FALSE]]] :
                    f \in {"impostor_name", "build_impostor_sculpt"},
                    prefix \in {"RS", "RT0"}}
       \/ \E n \in 0..MaxBoundsGroup :
             hf_call \in
                {[fn |-> "get_group_bounds",
                  args |-> [i \in 1..n |->
                               RegionData("test", g[i][1], g[i][2], g[i][3][1],
                                          g[i][3][2], "r")]] :
                    g \in [1..n -> {0, 256} \X {0, 512}
                                    \X {<<256, 256>>, <<256, 512>>,
                                        <<512, 512>>}]}

NextHeights ==
    \/ CallCombine
    \/ CallHalve
    \/ CallNewFromElevsBlob
    \/ CallConversions
    \/ CallImpostorName
    \/ CallBuildImpostorSculpt
    \/ CallGetGroupBounds

SpecHeights == InitHeights /\ [][NextHeights]_vars

(***************************************************************************)
(* run of generateterrain.rs: the closure over the rows of the grid, the   *)
(* clearing of initial_impostors, then process_grid over the groups.       *)
(***************************************************************************)
MaxRunRegions == 3
MaxRunX == 1
MaxRunY == 3

\* The rows the SELECT of transitive_closure can return, in its order: the
\* grid asked for in one spelling, or in two that LOWER(grid) makes equal.
RunRows ==
    LET rows == {GroupOfCells(S) :
                    S \in {T \in SUBSET ((0..MaxRunX) \X (0..MaxRunY)) :
                              Cardinality(T) <= MaxRunRegions}}
    IN  rows \cup {[r EXCEPT ![1].grid = "TEST"] :
                      r \in {q \in rows : Len(q) = 2}}

\* The sculpt and the base texture of the LOD-0 tile at cell c as rows of
\* tile_assets, under the hashes the build computes or under older ones.
AssetRows(c, fresh) ==
    {[grid |-> "test",
      region_loc |-> <<c[1] * DEFAULT_REGION_SIZE, c[2] * DEFAULT_REGION_SIZE>>,
      region_size |-> <<DEFAULT_REGION_SIZE, DEFAULT_REGION_SIZE>>,
      asset_type |-> kind[1],
      asset_hash |->
          [image |-> IF fresh THEN kind[2] ELSE "old",
           of |-> <<c[1] * DEFAULT_REGION_SIZE, c[2] * DEFAULT_REGION_SIZE,
                    0>>],
      asset_uuid |-> kind[3]] :
        kind \in {<<"SculptTexture", "sculpt", "uuid-s">>,
                  <<"BaseTexture", "texture", "uuid-t">>}}

\* The contents of tile_assets: nothing; the tiles of column 0 with their
\* sculpt as the build makes it and a texture since changed; every tile
\* with both assets as the build makes them.
AssetCatalogs ==
    {{},
     UNION {{a \in AssetRows(<<0, y>>, TRUE) : a.asset_type = "SculptTexture"}
            \cup {a \in AssetRows(<<0, y>>, FALSE) :
                     a.asset_type = "BaseTexture"} : y \in 0..MaxRunY},
     UNION {AssetRows(c, TRUE) : c \in (0..MaxRunX) \X (0..MaxRunY)}}

\* Rows of initial_impostors left by an earlier run, of this grid and of
\* another one.
OldImpostors ==
    {[grid |-> g, name |-> "old", region_loc |-> <<0, 0>>,
      region_size |-> <<DEFAULT_REGION_SIZE, DEFAULT_REGION_SIZE>>,
      impostor_lod |-> 0, viz_group |-> 0, sculpt_uuid |-> <<>>,
      sculpt_hash |-> [image |-> "old", of |-> <<0, 0, 0>>],
      base_texture_uuid |-> <<>>,
      base_texture_hash |-> [image |-> "old", of |-> <<0, 0, 0>>]] :
        g \in {"test", "other"}}

\* TerrainGenerator::new
NewTerrainGenerator(corners_touch_connects, generate_mesh) ==
    [corners_touch_connects |-> corners_touch_connects,
     generate_mesh |-> generate_mesh]

\* run is entered: TerrainGenerator::new, then VizGroups::new at the head of
\* transitive_closure.
InitRun ==
    /\ IdleCursors
    /\ IdleGroup
    /\ IdleHeights
    /\ IdleFcgi
    /\ run_pc = "start"
    /\ run_args \in {[grid |-> "test", generate_mesh |-> m] : m \in BOOLEAN}
    /\ \E tg \in {NewTerrainGenerator(run_args.generate_mesh, FALSE)} :
          /\ tg_generate_mesh = tg.generate_mesh
          /\ LET s == NewVizGroups(IF tg.corners_touch_connects THEN 1 ELSE 0)
             IN  /\ column = s.column
                 /\ prev_region_data = s.prev_region_data
                 /\ live_blocks = s.live_blocks
                 /\ completed_groups = s.completed_groups
                 /\ tolerance = s.tolerance
                 /\ lb_region_data = s.lb_region_data
                 /\ lb_viz_group = s.lb_viz_group
                 /\ vg_grid = s.vg_grid
                 /\ vg_regions = s.vg_regions
                 /\ vg_live_blocks_weak = s.vg_live_blocks_weak
    /\ vz_pc = "input"
    /\ vz_input = <<>>
    /\ vz_result = <<>>
    /\ grids = <<>>
    /\ raw_terrain_heights \in RunRows
    /\ initial_impostors = OldImpostors
    /\ tile_assets \in AssetCatalogs
    /\ stats = [assets_generated |-> 0, assets_reused |-> 0]
    /\ files = <<>>
    /\ grid_groups = <<>>
    /\ grid_group_id = 0
    /\ built = <<>>

\* transitive_closure: the closure called by exec_map for the next row.
ClosureRow ==
    /\ run_pc = "start"
    /\ Len(vz_input) < Len(raw_terrain_heights)
    /\ \E r \in {raw_terrain_heights[Len(vz_input) + 1]} :
          \E s \in {add_region_data(VizState, r)} :
              /\ StoreViz(s)
              /\ vz_input' = Append(vz_input, r)
              /\ grids' = IF s.panic THEN grids
                          ELSE grids \o add_region_data_result(VizState, r)
              /\ run_pc' = IF s.panic THEN "panic" ELSE "start"
    /\ UNCHANGED <<fcgiVars, ccVars, pgVars, hfVars, vz_pc, vz_result, run_args,
                   tg_generate_mesh, raw_terrain_heights, initial_impostors,
                   tile_assets, stats, files, grid_groups, grid_group_id,
                   built>>

\* transitive_closure: exec_map returns Err, which run returns.
ClosureFails ==
    /\ run_pc = "start"
    /\ run_pc' = "error"
    /\ UNCHANGED <<fcgiVars, vizVars, ccVars, pgVars, hfVars, run_args,
                   tg_generate_mesh, grids, raw_terrain_heights,
                   initial_impostors, tile_assets, stats, files, grid_groups,
                   grid_group_id, built>>

\* InitialImpostors::clear_grid: the table after the DELETE.
clear_grid(table, grid) == {row \in table : row.grid # to_lowercase(grid)}

\* The same, the groups sorted smallest first.
sort_by_len_ascending(groups) ==
    [k \in 1..Len(groups) |->
        groups[CHOOSE i \in 1..Len(groups) :
                   Cardinality({j \in 1..Len(groups) :
                                   \/ Len(groups[j]) < Len(groups[i])
                                   \/ /\ Len(groups[j]) = Len(groups[i])
                                      /\ j < i}) = k - 1]]

\* process_grid: completed_groups.sort_by(|a, b| b.len().partial_cmp(..)),
\* a stable sort, the longest group first.
sort_by_len(groups) ==
    [k \in 1..Len(groups) |->
        groups[CHOOSE i \in 1..Len(groups) :
                   Cardinality({j \in 1..Len(groups) :
                                   \/ Len(groups[j]) > Len(groups[i])
                                   \/ /\ Len(groups[j]) = Len(groups[i])
                                      /\ j < i}) = k - 1]]

\* The end of transitive_closure and run up to the loop of process_grid:
\* end_grid, the two tests on grids, clear_grid, the sort of process_grid.
ClosureEnd ==
    /\ run_pc = "start"
    /\ Len(vz_input) = Len(raw_terrain_heights)
    /\ \E s \in {end_grid(VizState)}, all \in {grids \o end_grid_delivery(VizState)} :
          /\ StoreViz(s)
          /\ grids' = all
          /\ IF s.panic
             THEN /\ run_pc' = "panic"
                  /\ UNCHANGED <<initial_impostors, grid_groups>>
             ELSE IF all = <<>>
             THEN /\ run_pc' = "not found"
                  /\ UNCHANGED <<initial_impostors, grid_groups>>
             ELSE IF Len(all) # 1
             THEN /\ run_pc' = "more than one grid"
                  /\ UNCHANGED <<initial_impostors, grid_groups>>
             ELSE \/ /\ run_pc' = "error"
                     /\ UNCHANGED <<initial_impostors, grid_groups>>
                  \/ /\ run_pc' = "process"
                     /\ initial_impostors' = clear_grid(initial_impostors,
                                                        run_args.grid)
                     /\ grid_groups' = sort_by_len(all[1])
    /\ UNCHANGED <<fcgiVars, ccVars, pgVars, hfVars, vz_pc, vz_input, vz_result,
                   run_args, tg_generate_mesh, raw_terrain_heights,
                   tile_assets, stats, files, grid_group_id, built>>

\* The id process_grid gives to the next group.
NextGroupId == IF pg_pc = "idle" THEN 0 ELSE grid_group_id + 1

\* A process_grid that goes on to the next group after an error.
ProcessGrid_goes_on ==
    /\ run_pc = "process"
    /\ pg_pc \in {"idle", "finished", "error", "panic"}
    /\ IF pg_pc \in {"panic"}
       THEN /\ run_pc' = pg_pc
            /\ UNCHANGED <<ccVars, pgVars, grid_group_id>>
       ELSE IF NextGroupId >= Len(grid_groups)
       THEN /\ run_pc' = "ok"
            /\ UNCHANGED <<ccVars, pgVars, grid_group_id>>
       ELSE /\ run_pc' = "process"
            /\ grid_group_id' = NextGroupId
            /\ pg_group' = grid_groups[NextGroupId + 1]
            /\ pg_pc' = "start"
            /\ pg_next' = 0
            /\ pg_yielded' = <<>>
            /\ pg_takes' = <<>>
            /\ cc_out' = <<>>
            /\ cc_last' = <<>>
            /\ cc_pc' = "idle"
            /\ UNCHANGED <<bounds, cursors, regions, working_lod,
                           progress_made, height_field_cache, hc_last>>
    /\ UNCHANGED <<fcgiVars, vizVars, hfVars, run_args, tg_generate_mesh, grids,
                   raw_terrain_heights, initial_impostors, tile_assets, stats,
                   files, grid_groups, built>>

\* process_grid: the head of its loop, after process_group has returned or
\* before the first group, and the return of run.
ProcessGrid ==
    /\ run_pc = "process"
    /\ pg_pc \in {"idle", "finished", "error", "panic"}
    /\ IF pg_pc \in {"error", "panic"}
       THEN /\ run_pc' = pg_pc
            /\ UNCHANGED <<ccVars, pgVars, grid_group_id>>
       ELSE IF NextGroupId >= Len(grid_groups)
       THEN /\ run_pc' = "ok"
            /\ UNCHANGED <<ccVars, pgVars, grid_group_id>>
       ELSE /\ run_pc' = "process"
            /\ grid_group_id' = NextGroupId
            /\ pg_group' = grid_groups[NextGroupId + 1]
            /\ pg_pc' = "start"
            /\ pg_next' = 0
            /\ pg_yielded' = <<>>
            /\ pg_takes' = <<>>
            /\ cc_out' = <<>>
            /\ cc_last' = <<>>
            /\ cc_pc' = "idle"
            /\ UNCHANGED <<bounds, cursors, regions, working_lod,
                           progress_made, height_field_cache, hc_last>>
    /\ UNCHANGED <<fcgiVars, vizVars, hfVars, run_args, tg_generate_mesh, grids,
                   raw_terrain_heights, initial_impostors, tile_assets, stats,
                   files, grid_groups, built>>

NextRun ==
    \/ ClosureRow
    \/ ClosureFails
    \/ ClosureEnd
    \/ ProcessGrid
    \/ StartGroup
    \/ BuildLods
    \/ BuildLod0

SpecRun == InitRun /\ [][NextRun]_vars

\* The rows of initial_impostors that carry the data assembled for a tile.
RowsOfTile(data) ==
    {row \in initial_impostors :
        /\ row.grid = to_lowercase(data.grid)
        /\ row.region_loc = data.region_loc
        /\ row.region_size = data.region_size
        /\ row.impostor_lod = data.impostor_lod
        /\ row.viz_group = data.viz_group
        /\ row.sculpt_hash = data.sculpt_hash}

\* C27: every tile yielded and built without error has exactly one row in
\* initial_impostors, with its grid, location, size, LOD, viz group and
\* sculpt hash; after a run that succeeded the table holds for the grid one
\* row per tile.
C27_OneRowPerBuiltTile ==
    /\ \A i \in 1..Len(built) : Cardinality(RowsOfTile(built[i])) = 1
    /\ run_pc = "ok" =>
          Cardinality({row \in initial_impostors :
                          row.grid = to_lowercase(run_args.grid)})
              = Len(built)

\* The UUIDs tile_assets holds for an asset of a built tile.
CatalogUuids(data, asset_type, asset_hash) ==
    {a.asset_uuid :
        a \in {a \in tile_assets : /\ a.grid = to_lowercase(data.grid)
                                   /\ a.region_loc = data.region_loc
                                   /\ a.region_size = data.region_size
                                   /\ a.asset_type = asset_type
                                   /\ a.asset_hash = asset_hash}}

\* The files written for an asset of a built tile: the name starts with the
\* prefix and carries the place, the LOD and the hash.
FilesOfAsset(data, prefix, asset_hash) ==
    {k \in 1..Len(files) : /\ files[k][1] = prefix
                           /\ files[k][2] = data.region_loc[1]
                           /\ files[k][3] = data.region_loc[2]
                           /\ files[k][8] = data.impostor_lod
                           /\ files[k][11] = asset_hash}

\* An asset of a built tile was handled as the catalog demands.
ReusedOrGenerated(data, asset_type, prefix, asset_hash, uuid_opt) ==
    IF CatalogUuids(data, asset_type, asset_hash) # {}
    THEN /\ uuid_opt # <<>>
         /\ uuid_opt[1] \in CatalogUuids(data, asset_type, asset_hash)
         /\ FilesOfAsset(data, prefix, asset_hash) = {}
    ELSE /\ uuid_opt = <<>>
         /\ Cardinality(FilesOfAsset(data, prefix, asset_hash)) = 1

\* The assets of the built tiles that came with a UUID: <<tile, asset>>.
ReusedAssets ==
    {<<i, "sculpt">> : i \in {j \in 1..Len(built) :
                                 built[j].sculpt_uuid # <<>>}}
    \cup {<<i, "texture">> : i \in {j \in 1..Len(built) :
                                       built[j].base_texture_uuid # <<>>}}

\* C28: for each of the two assets of a built tile, a UUID found in
\* tile_assets for its grid, place, size, type and hash is the one in the
\* tile's data, no file is written and assets_reused grows by one; else one
\* file is written, the UUID is null and assets_generated grows by one.  As
\* long as no build has failed, assets_generated + assets_reused is twice
\* the number of tiles built.
C28_AssetsReusedOrGenerated ==
    /\ \A i \in 1..Len(built) :
          /\ ReusedOrGenerated(built[i], "SculptTexture", "RS",
                               built[i].sculpt_hash, built[i].sculpt_uuid)
          /\ ReusedOrGenerated(built[i], "BaseTexture", "RT0",
                               built[i].base_texture_hash,
                               built[i].base_texture_uuid)
    /\ pg_pc # "error" =>
          /\ stats.assets_reused = Cardinality(ReusedAssets)
          /\ stats.assets_generated = Len(files)
          /\ stats.assets_generated + stats.assets_reused = 2 * Len(built)

\* Tiles were built, some assets reused and some generated.
C28_Witness ==
    /\ run_pc = "ok"
    /\ Len(built) >= 2
    /\ stats.assets_reused > 0
    /\ stats.assets_generated > 0

\* A row the grid had in initial_impostors before run is gone.
Deleted ==
    \E row \in OldImpostors :
        row.grid = to_lowercase(run_args.grid) /\ row \notin initial_impostors

\* C29: in run the rows of the grid are deleted only after the groups of
\* the grid were computed, and before the first tile is processed; when the
\* closure fails, when the grid has no region (run reports that the grid
\* was not found) or when more than one grid is returned, no row is deleted.
C29_RowsDeletedOnlyAfterClosure ==
    /\ Deleted => /\ Len(vz_input) = Len(raw_terrain_heights)
                  /\ Len(grids) = 1
                  /\ raw_terrain_heights # <<>>
    /\ (pg_pc # "idle" \/ built # <<>>) => Deleted
    /\ (raw_terrain_heights = <<>> /\ run_pc \notin {"start", "error"})
       => run_pc = "not found"

\* Tile data belongs to group g: it is a member, or a tile over a member.
TileOfGroup(data, g) ==
    \E i \in 1..Len(g) :
        /\ data.region_loc[1] <= g[i].region_coords_x
        /\ g[i].region_coords_x < data.region_loc[1] + data.region_size[1]
        /\ data.region_loc[2] <= g[i].region_coords_y
        /\ g[i].region_coords_y < data.region_loc[2] + data.region_size[2]

\* C30: process_grid gives the completed groups the ids 0..n-1 in the order
\* of their member counts, the largest first: the groups it works through
\* are the completed groups, each once, none before a group with more
\* members, the group in work has the id of its place, and every tile is
\* built with the id of its group.
C30_IdsByDecreasingGroupSize ==
    run_pc \in {"process", "ok"} =>
        /\ Len(grid_groups) = Len(grids[1])
        /\ \A g \in Range(grids[1]) :
              Cardinality({k \in 1..Len(grid_groups) : grid_groups[k] = g})
                  = Cardinality({k \in 1..Len(grids[1]) : grids[1][k] = g})
        /\ \A i, j \in 1..Len(grid_groups) :
              i < j => Len(grid_groups[i]) >= Len(grid_groups[j])
        /\ pg_pc # "idle" => pg_group = grid_groups[grid_group_id + 1]
        /\ \A i \in 1..Len(built) :
              /\ built[i].viz_group < Len(grid_groups)
              /\ TileOfGroup(built[i], grid_groups[built[i].viz_group + 1])

\* Two groups of different sizes were processed.
C30_Witness ==
    /\ run_pc = "ok"
    /\ Len(grid_groups) >= 2
    /\ \E i \in 1..Len(grids[1]) :
          Len(grids[1][i]) < Len(grids[1][Len(grids[1])])
    /\ \E i, j \in 1..Len(built) : built[i].viz_group # built[j].viz_group

\* C32: a run started with -m fails as not implemented on its first tile,
\* before a sculpt or a texture is written; a run started without -m groups
\* the regions with corners_touch = false and builds sculpts.  The flag
\* decides between mesh and sculpt and nothing else: the regions are
\* grouped the same way with and without it.
C32_MeshFlagOnlyChoosesMesh ==
    run_pc # "idle" =>
        /\ tg_generate_mesh = run_args.generate_mesh
        /\ tolerance = 0
        /\ run_args.generate_mesh =>
              /\ built = <<>>
              /\ files = <<>>
              /\ run_pc # "ok" \/ raw_terrain_heights = <<>>

\* C33: when the build of a tile fails with an error process_grid stops at
\* that tile and returns the error to run: from then on no tile is handed to
\* the build, no group is started and nothing is built, the next thing to
\* happen is run returning the error, and the files written so far stay as
\* they are.  A build that fails leaves the files of earlier tiles in place.
C33_ErrorStopsTheGrid ==
    [][/\ IsPrefix(files, files')
       /\ pg_pc = "error" =>
             /\ pg_pc' = "error"
             /\ run_pc' = "error"
             /\ UNCHANGED <<files, built, stats, pg_yielded, pg_group,
                            pg_next, grid_group_id, height_field_cache>>
       /\ run_pc = "error" => UNCHANGED vars]_vars

\* A run has returned the error of a tile, with files written before it and
\* with a tile or a group left that it has not processed.
C33_Witness ==
    /\ run_pc = "error"
    /\ pg_pc = "error"
    /\ files # <<>>
    /\ built # <<>>
    /\ grid_group_id + 1 < Len(grid_groups)

\* C35: every completed group that VizGroups returns lists its members in
\* strictly increasing (x, y) order, for every input of regions at distinct
\* places in that order, also when groups of an earlier column are joined
\* through a later column; process_group passes the group to the scheduler
\* as it is.
C35_GroupMembersInOrder ==
    (/\ vz_result # <<>>
     /\ \A i, j \in 1..Len(vz_input) :
           i < j => \/ vz_input[i].region_coords_x # vz_input[j].region_coords_x
                    \/ vz_input[i].region_coords_y # vz_input[j].region_coords_y)
    =>  \A g \in 1..Len(vz_result[1]) :
            \A i, j \in 1..Len(vz_result[1][g]) :
                i < j =>
                    \/ vz_result[1][g][i].region_coords_x
                          < vz_result[1][g][j].region_coords_x
                    \/ /\ vz_result[1][g][i].region_coords_x
                             = vz_result[1][g][j].region_coords_x
                       /\ vz_result[1][g][i].region_coords_y
                             < vz_result[1][g][j].region_coords_y

\* C36: when the overlap test between the live blocks and a column at x
\* runs, which is with the live blocks as they are while the column is
\* collected, live_blocks holds only regions that can still touch the
\* column: a region of an earlier column whose right edge x + size_x is
\* below x has been removed.
C36_LiveBlocksReachTheColumn ==
    column # <<>> =>
        \A y \in DOMAIN live_blocks :
            lb_region_data[live_blocks[y]].region_coords_x
                    + lb_region_data[live_blocks[y]].size_x
                >= lb_region_data[column[1]].region_coords_x

\* C37: a region that reaches beyond the x of the column collected after it
\* stays in live_blocks when that column is closed by a region of a later
\* column, and closing the column trips no assertion.
C37_WideRegionStaysLive ==
    [][\A y \in DOMAIN live_blocks :
          (/\ column # <<>>
           /\ lb_region_data[live_blocks[y]].region_coords_x
                  + lb_region_data[live_blocks[y]].size_x
                > lb_region_data[column[1]].region_coords_x)
          => /\ vz_pc' # "panic"
             /\ vz_pc' = "input" =>
                   \E z \in DOMAIN live_blocks' :
                       live_blocks'[z] = live_blocks[y]]_vars

\* C38: for a group of one size, aligned to it, strictly increasing in
\* (x, y) and connected, which is every group ColumnCursors is built for
\* here, iterating to the end trips no assertion and no index bound: the y
\* of every region maps to an index of its LOD-0 column, no cell is marked
\* twice and shift finds no Unknown cell.
C38_CursorsNeverPanic ==
    cursors # <<>> => cc_pc # "panic"

(***************************************************************************)
(* run of common/minifcgi.rs: the records of a connection are read one by  *)
(* one into a Request; the handler is called when a request is complete.   *)
(* Bytes are numbers, strings are sequences of bytes below 128.            *)
(***************************************************************************)
MaxRequests == 2

\* The sequences of a sequence, one after the other.
RECURSIVE Flatten(_)
Flatten(seqs) ==
    IF seqs = <<>> THEN <<>> ELSE Head(seqs) \o Flatten(Tail(seqs))

\* Request::fetch_field_length: "eof" for Ok(None), "error" for Err.
fetch_field_length(b) ==
    IF b = <<>> THEN [status |-> "eof", v |-> 0, rest |-> b]
    ELSE IF b[1] <= 127
    THEN [status |-> "ok", v |-> b[1], rest |-> Tail(b)]
    ELSE IF Len(b) < 4
    THEN [status |-> "error", v |-> 0, rest |-> <<>>]
    ELSE [status |-> "ok",
          v |-> (b[1] % 128) * 16777216 + b[2] * 65536 + b[3] * 256 + b[4],
          rest |-> SubSeq(b, 5, Len(b))]

\* Request::fetch_field
fetch_field(cnt, b) ==
    IF Len(b) < cnt THEN [status |-> "error", field |-> <<>>, rest |-> <<>>]
    ELSE [status |-> "ok", field |-> SubSeq(b, 1, cnt),
          rest |-> SubSeq(b, cnt + 1, Len(b))]

\* Request::fetch_name_value_pair
fetch_name_value_pair(b) ==
    LET kcnt == fetch_field_length(b)
        vcnt == fetch_field_length(kcnt.rest)
        k == fetch_field(kcnt.v, vcnt.rest)
        v == fetch_field(vcnt.v, k.rest)
    IN  IF kcnt.status # "ok"
        THEN [status |-> kcnt.status, k |-> <<>>, v |-> <<>>, rest |-> <<>>]
        ELSE IF vcnt.status # "ok" \/ k.status # "ok" \/ v.status # "ok"
        THEN [status |-> "error", k |-> <<>>, v |-> <<>>, rest |-> <<>>]
        ELSE [status |-> "ok", k |-> k.field, v |-> v.field, rest |-> v.rest]

\* Request::build_params from the map m on: <<>> for Err, <<map>> for Ok.
RECURSIVE build_params(_, _)
build_params(b, m) ==
    LET p == fetch_name_value_pair(b)
    IN  IF p.status = "eof" THEN <<m>>
        ELSE IF p.status = "error" THEN <<>>
        ELSE build_params(p.rest,
                          [k \in DOMAIN m \cup {p.k} |->
                              IF k = p.k THEN p.v ELSE m[k]])

\* Request::add_record: the request after it and what it returned, "more"
\* for Ok(false), "ready" for Ok(true), "error" for Err.
add_record(req, rec) ==
    IF req.id # <<>> /\ req.id # <<rec.id>>
    THEN [request |-> req, status |-> "error"]
    ELSE LET r == [req EXCEPT !.id = <<rec.id>>]
         IN  IF rec.rec_type = "BeginRequest"
             THEN [request |-> r, status |-> "more"]
             ELSE IF rec.rec_type = "Params"
             THEN [request |-> [r EXCEPT !.param_bytes = @ \o rec.content],
                   status |-> "more"]
             ELSE IF rec.rec_type # "Stdin"
             THEN [request |-> r, status |-> "error"]
             ELSE IF rec.content # <<>>
             THEN [request |-> [r EXCEPT !.standard_input = @ \o rec.content],
                   status |-> "more"]
             ELSE IF build_params(r.param_bytes, EmptyMap) = <<>>
             THEN [request |-> r, status |-> "error"]
             ELSE [request |->
                       [r EXCEPT !.params =
                                     build_params(r.param_bytes, EmptyMap)],
                   status |-> "ready"]

\* The records a web server sends for one request: BeginRequest, the
\* name-value pairs as Params records and an empty one, the body as Stdin
\* records and an empty one.
FcgiRecords(req) ==
    <<[rec_type |-> "BeginRequest", id |-> req.id, content |-> <<0, 1>>]>>
    \o [i \in 1..Len(req.pairs) |->
           [rec_type |-> "Params", id |-> req.id,
            content |-> <<Len(req.pairs[i][1]), Len(req.pairs[i][2])>>
                            \o req.pairs[i][1] \o req.pairs[i][2]]]
    \o <<[rec_type |-> "Params", id |-> req.id, content |-> <<>>]>>
    \o [i \in 1..Len(req.body) |->
           [rec_type |-> "Stdin", id |-> req.id, content |-> req.body[i]]]
    \o <<[rec_type |-> "Stdin", id |-> req.id, content |-> <<>>]>>

\* run is entered with the requests of the connection waiting in instream.
InitFcgi ==
    /\ IdleViz
    /\ IdleCursors
    /\ IdleGroup
    /\ IdleHeights
    /\ IdleRun
    /\ request = NewRequest
    /\ fcgi_pc = "run"
    /\ fcgi_handled = <<>>
    /\ \E n \in 1..MaxRequests :
          fcgi_requests \in
              [1..n -> {[id |-> id, pairs |-> pairs, body |-> body] :
                           id \in {1, 2},
                           pairs \in {<<>>, <<<<<<65>>, <<49>>>>>>,
                                      <<<<<<65>>, <<50>>>>,
                                        <<<<66, 67>>, <<>>>>>>},
                           body \in {<<>>, <<<<7>>, <<8, 9>>>>}}]
    /\ instream = Flatten([i \in 1..Len(fcgi_requests) |->
                               FcgiRecords(fcgi_requests[i])])

\* One turn of the loop of run_one: a record is read and added to the
\* request; when the request is complete the handler is called, which
\* returns Ok or Err.  An Err makes run write a 500 response and return.
ReadRecord ==
    /\ fcgi_pc = "run"
    /\ instream # <<>>
    /\ instream' = Tail(instream)
    /\ \E a \in {add_record(request, Head(instream))} :
          /\ request' = a.request
          /\ IF a.status = "ready"
             THEN /\ fcgi_handled' =
                        Append(fcgi_handled,
                               [params |-> a.request.params[1],
                                standard_input |-> a.request.standard_input])
                  /\ fcgi_pc' \in {"run", "error"}
             ELSE /\ fcgi_pc' = IF a.status = "more" THEN "run" ELSE "error"
                  /\ UNCHANGED fcgi_handled
    /\ UNCHANGED <<vizVars, ccVars, pgVars, hfVars, runVars, fcgi_requests>>

\* new_from_stream finds the end of the stream: run returns Ok.
EndOfStream ==
    /\ fcgi_pc = "run"
    /\ instream = <<>>
    /\ fcgi_pc' = "eof"
    /\ UNCHANGED <<vizVars, ccVars, pgVars, hfVars, runVars, request,
                   instream, fcgi_requests, fcgi_handled>>

NextFcgi == ReadRecord \/ EndOfStream

SpecFcgi == InitFcgi /\ [][NextFcgi]_vars

\* The params a request carries: its names with their values.
ParamsOf(req) ==
    [k \in {req.pairs[i][1] : i \in 1..Len(req.pairs)} |->
        req.pairs[CHOOSE i \in 1..Len(req.pairs) : req.pairs[i][1] = k][2]]

\* C39: when several requests arrive one after another on a connection, the
\* handler sees for each request the params and the standard input of the
\* records of that request only: nothing read for an earlier request is
\* carried over.
C39_RequestsAreIsolated ==
    \A k \in 1..Len(fcgi_handled) :
        /\ fcgi_handled[k].params = ParamsOf(fcgi_requests[k])
        /\ fcgi_handled[k].standard_input = Flatten(fcgi_requests[k].body)

====
